---- MODULE Spec2Model ----
(***************************************************************************)
(* A model of pycbsdk: the packet handler thread, the NSP device object    *)
(* (configuration mirror, callback registries, synchronous waits), the     *)
(* datagram transport and the startup sequence.                            *)
(***************************************************************************)
EXTENDS Integers, Sequences, FiniteSets

(* ---------------------------------------------------------------- enums *)
(* CBRunLevel *)
STARTUP == 10
HARDRESET == 20
STANDBY == 30
RESET == 40
RUNNING == 50
STRESSED == 60
ERROR == 70
SHUTDOWN == 80

(* CBPacketType *)
SYSHEARTBEAT == 0
SYSPROTOCOLMONITOR == 1
REPCONFIGALL == 8
REQCONFIGALL == 136
SYSREP == 16
SYSREPRUNLEV == 18
SYSSETRUNLEV == 146
SYSREPTRANSPORT == 19
PROCREP == 33
LNCREP == 40
BANKREP == 34
FILTREP == 35
ADAPTFILTREP == 37
REFELECFILTREP == 38
REPNTRODEINFO == 39
SS_MODELREP == 81
SS_DETECTREP == 82
SS_ARTIF_REJECTREP == 83
SS_NOISE_BOUNDARYREP == 84
SS_STATISTICSREP == 85
SS_STATUSREP == 87
REPFILECFG == 97
SYSSETTRANSPORT == 147
COMMENTREP == 49
CHANREP == 64
CHANREPLABEL == 65
CHANREPSCALE == 66
CHANREPDOUT == 67
CHANREPDINP == 68
CHANREPAOUT == 69
CHANREPDISP == 70
CHANREPAINP == 71
CHANSETAINP == 199
CHANREPSMP == 72
CHANSETSMP == 200
CHANREPSPK == 73
CHANREPSPKTHR == 74
CHANSETSPKTHR == 202
CHANREPSPKHPS == 75
CHANREPUNITOVERRIDES == 76
CHANREPNTRODEGROUP == 77
CHANREPREJECTAMPLITUDE == 78
CHANREPAUTOTHRESHOLD == 79
CHANSETAUTOTHRESHOLD == 207
CHANSETLABEL == 193
CHANSETSPK == 201
CHANSETSPKHPS == 203
LNCSET == 168
NPLAYREP == 92
LOGREP == 99
GROUPREP == 48
NPLAYSET == 220

(* CBSpecialChan *)
GROUP == 0
CONFIGURATION == 32768

(* CBChannelType *)
Any == -1
FrontEnd == 1
AnalogIn == 2
DigitalIn == 3
DigitalOut == 4
Serial == 5
Audio == 6

(* CBNPlayMode *)
NPLAY_NONE == 0
NPLAY_PAUSE == 1
NPLAY_SINGLE == 8

(* CBChanCaps, CBAnaInpOpts *)
CAPS_isolated == 4
CAPS_ainp == 256
CAPS_aout == 512
CAPS_dinp == 1024
CAPS_dout == 2048
(* CBDigInpCaps.serialmask, CBAnaOutCaps.audio *)
DINP_serialmask == 255
AOUT_audio == 1
lnc_runsoft == 2
lnc_mask == 7
refelec_offsetcorrect == 256
refelec_rawstream == 64
(* CBAInpSpk.THRAUTO, EXTRACT, HOOPSORT, ALLSORT *)
THRAUTO == 1024
EXTRACT == 1
HOOPSORT == 65536
ALLSORT == 2093056

(* CBError.NONE and CBError.NOREPLY *)
CBError_NONE == "NONE"
CBError_NOREPLY == "NOREPLY"

(* CBTransport.CHECK, the transport flags before any reply *)
TRANSPORT_CHECK == 0

(* ---------------------------------------------------------------- bounds *)
(* packets the transport receives in the dispatch specifications *)
MaxPkts == 2
(* register and unregister calls the client makes in the dispatch specifications *)
MaxRegs == 3
(* channels the instrument reports (PROCREP.chancount) *)
NChans == 2
(* unsolicited SYSREPTRANSPORT packets the instrument broadcasts *)
MaxUnsolicited == 1
(* calls the client makes on the connected device *)
MaxOps == 1
(* datagrams of the instrument the network loses *)
MaxDrops == 1
(* datagrams lost and datagrams broadcast, together *)
MaxDisturbances == 1
(* packets of the instrument that wait on the receive queue: the handler keeps
   up with the network to within this number *)
MaxBacklog == 2
(* datagrams the socket delivers *)
MaxDatagrams == 2
(* bytes a datagram may have lost at its end *)
MaxCut == 5
(* elements in a packet's trailing array (max_elements is 128 for a spike, 254
   for a generic packet, 272 for a group info packet) *)
MaxElems == 3

(* --------------------------------------------------------------- helpers *)
RunLevels == {STARTUP, HARDRESET, STANDBY, RESET, RUNNING, STRESSED, ERROR, SHUTDOWN}
ChannelTypes == {Any, GROUP, FrontEnd, AnalogIn, DigitalIn, DigitalOut, Serial, Audio}
EventNames == {"sysrep", "runlevel_standby", "runlevel_running", "chaninfo"}
UserCallbacks == {"a", "b"}
NoPkt == [type |-> -1]
NoFrame == [phase |-> "none"]
(* values the raw-stream experiments start from: no option, the raw-stream bit,
   the raw-stream bit with another option *)
AinpOpts == {0, refelec_rawstream, refelec_rawstream + 1}
NoCall == [level |-> 0, ev |-> "none", succ |-> TRUE, err |-> "NONE"]
(* no call of the runlevel and transport functions has returned yet *)
NoResult == [call |-> "none", err |-> "none", value |-> 0]

(* the result of a call of the client: the exception that left it, or its
   value *)
ClientResult(call, err, value) == [call |-> call, err |-> err, value |-> value]

RECURSIVE BitAnd(_, _)
BitAnd(x, y) ==
    IF x = 0 \/ y = 0 THEN 0
    ELSE (x % 2) * (y % 2) + 2 * BitAnd(x \div 2, y \div 2)

(* x & ~m *)
BitClear(x, m) == x - BitAnd(x, m)

(* x | m *)
BitOr(x, m) == x + m - BitAnd(x, m)

Range(s) == {s[i] : i \in 1..Len(s)}

RECURSIVE Remove(_, _)
(* list.remove(x): drop the first occurrence *)
Remove(s, x) ==
    IF s = <<>> THEN <<>>
    ELSE IF Head(s) = x THEN Tail(s)
    ELSE <<Head(s)>> \o Remove(Tail(s), x)

VARIABLES
    config,            \* NSPDevice._config (the configuration mirror)
    events,            \* DeviceInterface._config_events: name -> flag
    config_callbacks,  \* packet type -> list of callbacks
    group_callbacks,   \* group id -> list of callbacks
    event_callbacks,   \* channel type -> list of callbacks
    pkts_received,     \* device.pkts_received
    last_time,         \* device.last_time
    last_group_time,   \* the local last_group_time of PacketHandlerThread.run
    warnings,          \* number of out-of-order warnings the handler has logged
    hpc,               \* handler thread: "idle" | "wait" | "dispatch" | "exited" | "crashed"
    hpkt,              \* the packet the handler is dispatching
    hcbs,              \* the list object `callbacks` refers to: <<registry, key>>
    hidx,              \* position of the for-loop over `callbacks`
    hcls,              \* class of the packet the handler's make_packet call returned
    mk,                \* frame of a make_packet call: its arguments and the class
    codec,             \* a packet object, its bytes() and the object rebuilt from them
    stop_event,        \* PacketHandlerThread._stop_event
    recv_q,            \* PacketHandlerThread._recv_q
    send_q,            \* CerebusDatagramThread._send_q (items; "quit" is the sentinel)
    wire,              \* messages handed to sendto, in order
    net,               \* packets the instrument has sent and the socket not yet read
    io,                \* the transport thread: [recv, send, closed, done]
    dev,               \* the instrument and the network: [runlevel, nplay, chans, ...]
    pc,                \* caller context: position in connect / the client call
    sp,                \* frame of the running _send_packet call
    gc,                \* frame of the running get_config call
    cf,                \* frame of the running configure_channel call
    ret,               \* results returned to the caller
    calls,             \* log of user callback invocations: <<callback, packet seq>>
    rcvd,              \* log of packets put on the receive queue (dispatch specs)
    registered,        \* the client's registrations, in order: <<registry, key, cb>>
    hist               \* history facts the claims refer to

mirror == <<config, events>>
registries == <<config_callbacks, group_callbacks, event_callbacks>>
handler == <<pkts_received, last_time, last_group_time, warnings, hpc, hpkt, hcbs,
             hidx, hcls, mk, codec>>
transportv == <<send_q, wire, net, io, dev>>
caller == <<pc, sp, gc, cf, ret>>
ghost == <<calls, rcvd, registered, hist>>
vars == <<config, events, config_callbacks, group_callbacks, event_callbacks,
          pkts_received, last_time, last_group_time, warnings, hpc, hpkt, hcbs,
          hidx, hcls, mk, codec, stop_event, recv_q,
          send_q, wire, net, io, dev, pc, sp, gc, cf, ret, calls, rcvd,
          registered, hist>>

(* ------------------------------------------------------ device callbacks *)
IsConfigChid(chid) == (chid \div CONFIGURATION) % 2 = 1

(* what get_chantype_from_chaninfo returns when no rule matches (None) *)
NoChanType == Any - 1

(* nsp.py 258-273 *)
get_chantype_from_chaninfo(pkt) ==
    IF BitAnd(pkt.chancaps, CAPS_isolated + CAPS_ainp) = CAPS_isolated + CAPS_ainp
    THEN FrontEnd
    ELSE IF BitAnd(pkt.chancaps, CAPS_ainp) # 0 /\ BitAnd(pkt.chancaps, CAPS_isolated) = 0
    THEN AnalogIn
    ELSE IF BitAnd(pkt.chancaps, CAPS_dinp) # 0
    THEN IF BitAnd(pkt.dinpcaps, DINP_serialmask) # 0 THEN Serial ELSE DigitalIn
    ELSE IF BitAnd(pkt.chancaps, CAPS_dout) # 0
    THEN DigitalOut
    ELSE IF BitAnd(pkt.chancaps, CAPS_aout) # 0 /\ BitAnd(pkt.aoutcaps, AOUT_audio) # 0
    THEN Audio
    ELSE NoChanType

(* NSPDevice._handle_sysrep: the mirror after the packet *)
handle_sysrep_wrong_scope(pkt) ==
    [config EXCEPT !.runlevel = pkt.runlevel,
                   !.sysfreq = pkt.sysfreq,
                   !.instrument = pkt.instrument,
                   !.transport = IF pkt.type \in {SYSREP, SYSREPTRANSPORT} /\ pkt.has_transport
                                 THEN pkt.transport ELSE @]

handle_sysrep(pkt) ==
    LET b_general == pkt.type = SYSREP
        c1 == IF (b_general \/ pkt.type = SYSREPTRANSPORT) /\ pkt.has_transport
              THEN [config EXCEPT !.transport = pkt.transport]
              ELSE config
    IN  IF b_general \/ pkt.type = SYSREPRUNLEV
        THEN [c1 EXCEPT !.runlevel = pkt.runlevel,
                        !.sysfreq = pkt.sysfreq,
                        !.instrument = pkt.instrument]
        ELSE c1

(* NSPDevice._handle_sysrep: the events after the packet *)
handle_sysrep_events_any_type(pkt) ==
    LET e1 == [events EXCEPT !["sysrep"] = TRUE]
    IN  IF pkt.runlevel = STANDBY THEN [e1 EXCEPT !["runlevel_standby"] = TRUE]
        ELSE IF pkt.runlevel = RUNNING THEN [e1 EXCEPT !["runlevel_running"] = TRUE]
        ELSE e1

handle_sysrep_events(pkt) ==
    LET rl == handle_sysrep(pkt).runlevel
        e1 == [events EXCEPT !["sysrep"] = TRUE]
    IN  IF pkt.type = SYSREP \/ pkt.type = SYSREPRUNLEV
        THEN IF rl = STANDBY THEN [e1 EXCEPT !["runlevel_standby"] = TRUE]
             ELSE IF rl = RUNNING THEN [e1 EXCEPT !["runlevel_running"] = TRUE]
             ELSE e1
        ELSE e1

(* nsp.py 418-459: the fields of the mirror's record a scoped reply assigns *)
OwnedFields_shared_spk(type) ==
    CASE type = CHANREPAINP -> {"ainpopts", "lncrate", "refelecchan"}
      [] type \in {CHANREPSPK, CHANREPAUTOTHRESHOLD} -> {"spkopts", "spkfilter"}
      [] type = CHANREPREJECTAMPLITUDE -> {"spkopts", "amplrejpos", "amplrejneg"}
      [] type = CHANREPSMP -> {"smpfilter", "smpgroup"}
      [] type = CHANREPSPKHPS -> {"spkhoops"}
      [] type = CHANREPAOUT -> {"aoutopts"}
      [] type = CHANREPSCALE -> {"scalin", "scalout"}
      [] type = CHANREPDINP -> {"dinpopts", "eopchar"}
      [] type = CHANREPDOUT -> {"doutopts", "doutcaps"}
      [] type = CHANREPLABEL -> {"label", "userflags"}
      [] type \in {CHANSETSPKTHR, CHANREPSPKTHR} -> {"spkthrlevel"}
      [] OTHER -> {}

OwnedFields(type) ==
    CASE type = CHANREPAINP -> {"ainpopts", "lncrate", "refelecchan"}
      [] type = CHANREPSPK -> {"spkopts", "spkfilter"}
      [] type = CHANREPREJECTAMPLITUDE -> {"spkopts", "amplrejpos", "amplrejneg"}
      [] type = CHANREPAUTOTHRESHOLD -> {"spkopts"}
      [] type = CHANREPSMP -> {"smpfilter", "smpgroup"}
      [] type = CHANREPSPKHPS -> {"spkhoops"}
      [] type = CHANREPAOUT -> {"aoutopts"}
      [] type = CHANREPSCALE -> {"scalin", "scalout"}
      [] type = CHANREPDINP -> {"dinpopts", "eopchar"}
      [] type = CHANREPDOUT -> {"doutopts", "doutcaps"}
      [] type = CHANREPLABEL -> {"label", "userflags"}
      [] type \in {CHANSETSPKTHR, CHANREPSPKTHR} -> {"spkthrlevel"}
      [] OTHER -> {}

(* NSPDevice._handle_chaninfo: the mirror after the packet.  The full-scope
   CHANREP stores a copy of the packet and its class; a scoped reply assigns its
   own fields in the stored record (records carry the fields the specification
   at hand uses) *)
handle_chaninfo(pkt) ==
    IF pkt.instrument # config.instrument \/ pkt.chan > config.proc_chans
    THEN config
    ELSE IF pkt.type = CHANREP
    THEN [config EXCEPT
            !.channel_infos = [c \in DOMAIN @ \cup {pkt.chan} |->
                                 IF c = pkt.chan THEN pkt ELSE @[c]],
            !.channel_types = [c \in DOMAIN @ \cup {pkt.chan} |->
                                 IF c = pkt.chan THEN get_chantype_from_chaninfo(pkt)
                                 ELSE @[c]]]
    ELSE IF OwnedFields(pkt.type) = {}
    THEN config
    ELSE IF pkt.chan \notin DOMAIN config.channel_infos
    THEN config   \* KeyError inside the callback; see HandlerCall
    ELSE [config EXCEPT
            !.channel_infos[pkt.chan] =
                [f \in DOMAIN @ |-> IF f \in OwnedFields(pkt.type) THEN pkt[f]
                                    ELSE @[f]]]

(* nsp.py 474-480, _handle_groupinfo: the number of different channels in the
   list of a GROUPREP (the list counts when pkt.length > 0) *)
handle_groupinfo(pkt) ==
    LET chan_list == IF pkt.length > 0 THEN Range(pkt.chan_list) ELSE {}
    IN  [config EXCEPT
            !.group_nchans = [g \in DOMAIN @ \cup {pkt.group} |->
                                IF g = pkt.group THEN Cardinality(chan_list) ELSE @[g]]]

(* NSPDevice._handle_procinfo *)
handle_procinfo(pkt) == [config EXCEPT !.proc_chans = pkt.chancount]

(* NSPDevice._handle_nplay *)
handle_nplay(pkt) == [config EXCEPT !.nplay = TRUE]

(* nsp.py 331-355: the types _handle_chaninfo is registered for *)
ChanInfoTypes ==
    {CHANREP, CHANREPSMP, CHANREPSPKHPS, CHANREPSPK, CHANREPAUTOTHRESHOLD,
     CHANREPREJECTAMPLITUDE, CHANREPAOUT, CHANREPSCALE, CHANREPDINP, CHANREPDOUT,
     CHANREPLABEL, CHANREPAINP, CHANREPSPKTHR, CHANREPNTRODEGROUP, CHANREPDISP,
     CHANREPUNITOVERRIDES}

(* nsp.py 366-381: the types registered with _black_hole: SYSHEARTBEAT,
   SS_MODELREP, SS_DETECTREP, ADAPTFILTREP, SS_ARTIF_REJECTREP, LNCREP,
   SS_NOISE_BOUNDARYREP, SS_STATISTICSREP, REPFILECFG, SS_STATUSREP, FILTREP,
   BANKREP, REPNTRODEINFO, REFELECFILTREP *)
BlackHoleTypes ==
    {SYSHEARTBEAT, SS_MODELREP, SS_DETECTREP, ADAPTFILTREP, SS_ARTIF_REJECTREP, LNCREP,
     SS_NOISE_BOUNDARYREP, SS_STATISTICSREP, REPFILECFG, SS_STATUSREP, FILTREP,
     BANKREP, REPNTRODEINFO, REFELECFILTREP}

(* NSPDevice._register_basic_callbacks: the device's own callback per type *)
BasicCallbacks(type) ==
    CASE type \in {SYSREP, SYSREPRUNLEV, SYSREPTRANSPORT} -> <<"_handle_sysrep">>
      [] type \in ChanInfoTypes -> <<"_handle_chaninfo">>
      [] type = GROUPREP -> <<"_handle_groupinfo">>
      [] type = PROCREP -> <<"_handle_procinfo">>
      [] type = NPLAYREP -> <<"_handle_nplay">>
      [] type = REPCONFIGALL -> <<"_handle_configall">>
      [] type = SYSPROTOCOLMONITOR -> <<"_handle_procmon">>
      [] type = LOGREP -> <<"_handle_log">>
      [] type = COMMENTREP -> <<"_handle_comment">>
      [] type \in BlackHoleTypes -> <<"_black_hole">>
      [] OTHER -> <<>>

(* the keys of config_callbacks after NSPDevice.__init__ *)
ConfigTypes == {REPCONFIGALL, SYSREP, SYSREPRUNLEV, SYSREPTRANSPORT, PROCREP,
                COMMENTREP, NPLAYREP, GROUPREP, SYSPROTOCOLMONITOR, LOGREP}
               \cup ChanInfoTypes \cup BlackHoleTypes

(* ------------------------------------------------------- packet factory *)
(* packets.py 626-722, register_pktcls_with_factory: header types -> class *)
TypeClasses ==
    { <<{8}, "CBPacketGeneric">>,                       \* REPCONFIGALL
      <<{0}, "CBPacketHeartBeat">>,                     \* SYSHEARTBEAT
      <<{221, 93}, "CBPacketSetDOut">>,                 \* SET_DOUTSET, SET_DOUTREP
      <<{16, 17, 18, 144, 145, 146}, "CBPacketSysInfo">>, \* SYSREP.., SYSSET..
      <<{48, 176, 35, 163}, "CBPacketGroupInfo">>,      \* GROUPREP/SET, FILTREP/SET
      <<{33}, "CBPacketProcInfo">>,                     \* PROCREP
      <<{34}, "CBPacketBankInfo">>,                     \* BANKREP
      <<{49, 177}, "CBPacketComment">>,                 \* COMMENTREP, COMMENTSET
      <<{64, 192}, "CBPacketChanInfo">>,                \* CHANREP, CHANSET
      <<{39, 167}, "CBPacketNTrodeInfo">>,              \* REPNTRODEINFO, SETNTRODEINFO
      <<{37, 165}, "CBPacketAdaptFiltInfo">>,           \* ADAPTFILTREP, ADAPTFILTSET
      <<{227, 99}, "CBPacketLog">>,                     \* LOGSET, LOGREP
      <<{1}, "CBPacketSysProtocolMonitor">>,            \* SYSPROTOCOLMONITOR
      <<{38, 166}, "CBPacketRefElecFiltInfo">>,         \* REFELECFILTREP/SET
      <<{40, 168}, "CBPacketLNC">>,                     \* LNCREP, LNCSET
      <<{97, 225}, "CBPacketFileCFG">>,                 \* REPFILECFG, SETFILECFG
      <<{95, 223}, "CBPacketVideoTrack">>,              \* VIDEOTRACKREP/SET
      <<{41, 169}, "CBPacketVideoSynch">>,              \* VIDEOSYNCHREP/SET
      <<{220, 92}, "CBPacketNPlay">>,                   \* NPLAYSET, NPLAYREP
      <<{80, 208}, "CBPacketSSModelAll">>,              \* SS_MODELALLREP/SET
      <<{82, 210}, "CBPacketSSDetect">>,                \* SS_DETECTREP/SET
      <<{83, 211}, "CBPacketSSArtifReject">>,           \* SS_ARTIF_REJECTREP/SET
      <<{84, 212}, "CBPacketSSNoiseBoundary">>,         \* SS_NOISE_BOUNDARYREP/SET
      <<{85, 213}, "CBPacketSSStatistics">>,            \* SS_STATISTICSREP/SET
      <<{87, 215}, "CBPacketSSStatus">> }               \* SS_STATUSREP/SET

(* the keys of CBPacketFactory._pktcls_by_type *)
RegisteredTypes == UNION {tc[1] : tc \in TypeClasses}

(* CBPacketFactory._pktcls_by_type[t] *)
pktcls_by_type(t) == (CHOOSE tc \in TypeClasses : t \in tc[1])[2]

(* the keys of CBPacketFactory._pktcls_by_chantype (packets.py 627-635) *)
RegisteredChanTypes == {FrontEnd, GROUP, DigitalIn}

(* CBPacketFactory._pktcls_by_chantype[c] *)
pktcls_by_chantype(c) ==
    CASE c = FrontEnd -> "CBPacketSpike"
      [] c = GROUP -> "CBPacketGroup"
      [] c = DigitalIn -> "CBPacketDIn"

(* CBPacketFactory._fallback_class (packets.py 631) *)
fallback_class == "CBPacketGeneric"

(* make_packet with `pkt_type >= 0` in place of `pkt_type > 0` *)
make_packet_class_group0(chid, pkt_type, chantype) ==
    IF BitAnd(chid, CONFIGURATION) # 0
    THEN IF pkt_type \in RegisteredTypes THEN pktcls_by_type(pkt_type)
         ELSE IF BitAnd(pkt_type, 240) \in RegisteredTypes
         THEN pktcls_by_type(BitAnd(pkt_type, 240))
         ELSE fallback_class
    ELSE IF chantype # NoChanType /\ chantype # 0 /\ chantype \in RegisteredChanTypes
    THEN pktcls_by_chantype(chantype)
    ELSE IF pkt_type >= 0 THEN pktcls_by_chantype(GROUP)
    ELSE fallback_class

(* factory.py 72-91, CBPacketFactory.make_packet: the class the packet is built
   with. `chantype and ...` tests the hint's truth value: None and the class
   Group (integer 0) both count as no hint. The fallback class is registered, so
   a class is always found. With chid 0 the function re-reads chid and type from
   the header in the data (lines 60-63), the header the arguments came from. *)
make_packet_class(chid, pkt_type, chantype) ==
    IF BitAnd(chid, CONFIGURATION) # 0
    THEN IF pkt_type \in RegisteredTypes THEN pktcls_by_type(pkt_type)
         ELSE IF BitAnd(pkt_type, 240) \in RegisteredTypes
         THEN pktcls_by_type(BitAnd(pkt_type, 240))
         ELSE fallback_class
    ELSE IF chantype # NoChanType /\ chantype # 0 /\ chantype \in RegisteredChanTypes
    THEN pktcls_by_chantype(chantype)
    ELSE IF pkt_type > 0 THEN pktcls_by_chantype(GROUP)
    ELSE fallback_class

(* ------------------------------------------------------- handler thread *)
(* channel_types is a defaultdict: Any for a chid without a CHANREP *)
ChanTypeOf(chid) ==
    IF chid \in DOMAIN config.channel_types THEN config.channel_types[chid] ELSE Any

(* the list object a reference denotes; config_callbacks is a defaultdict
   (base.py 47-49): a type never registered has the empty list *)
CbList(ref) ==
    CASE ref[1] = "config" -> IF ref[2] \in DOMAIN config_callbacks
                              THEN config_callbacks[ref[2]] ELSE <<>>
      [] ref[1] = "group" -> group_callbacks[ref[2]]
      [] ref[1] = "event" -> event_callbacks[ref[2]]
      [] OTHER -> <<>>

(* handler.py 86-101: which list `callbacks` is bound to *)
resolve_callbacks(pkt) ==
    IF IsConfigChid(pkt.chid) THEN <<"config", pkt.type>>
    ELSE IF pkt.chid = GROUP
    THEN IF pkt.type \in DOMAIN group_callbacks THEN <<"group", pkt.type>>
         ELSE <<"none", 0>>
    ELSE <<"event", ChanTypeOf(pkt.chid)>>

(* handler.py 98-100: `callbacks += event_callbacks[Any]` extends the list that
   event_callbacks[chantype] holds, in place *)
resolve_event_registry(pkt) ==
    IF ~IsConfigChid(pkt.chid) /\ pkt.chid # GROUP /\ ChanTypeOf(pkt.chid) # Any
    THEN [event_callbacks EXCEPT ![ChanTypeOf(pkt.chid)] = @ \o event_callbacks[Any]]
    ELSE event_callbacks

(* a device callback that raises on this packet ends the thread:
   nsp.py 418-459, _handle_chaninfo: a scoped reply for a channel the mirror has
     no record of (KeyError);
   nsp.py 384-385, _handle_sysrep: CBRunLevel(pkt.runlevel) for a runlevel that is
     no member of the enum (ValueError), before anything is stored;
   nsp.py 532-535, _handle_comment: pkt.comment is self._array.rstrip (v40.py
     112), and a ctypes array has no rstrip (AttributeError), for every packet *)
Raises(cb, pkt) ==
    \/ /\ cb = "_handle_chaninfo"
       /\ pkt.instrument = config.instrument
       /\ pkt.chan <= config.proc_chans
       /\ pkt.type # CHANREP
       /\ OwnedFields(pkt.type) # {}
       /\ pkt.chan \notin DOMAIN config.channel_infos
    \/ /\ cb = "_handle_sysrep"
       /\ pkt.runlevel \notin RunLevels
    \/ cb = "_handle_comment"

(* the mirror after callback cb has run on pkt *)
CallbackConfig(cb, pkt) ==
    CASE cb = "_handle_sysrep" -> handle_sysrep(pkt)
      [] cb = "_handle_chaninfo" -> handle_chaninfo(pkt)
      [] cb = "_handle_procinfo" -> handle_procinfo(pkt)
      [] cb = "_handle_nplay" -> handle_nplay(pkt)
      [] cb = "_handle_groupinfo" -> handle_groupinfo(pkt)
      [] OTHER -> config

CallbackEvents(cb, pkt) ==
    CASE cb = "_handle_sysrep" -> handle_sysrep_events(pkt)
      [] cb = "_handle_chaninfo" -> [events EXCEPT !["chaninfo"] = TRUE]
      [] OTHER -> events

(* a registration <<registry, key, cb>> that selects the packet *)
Matches(r, pkt) ==
    IF IsConfigChid(pkt.chid) THEN r[1] = "config" /\ r[2] = pkt.type
    ELSE IF pkt.chid = GROUP THEN r[1] = "group" /\ r[2] = pkt.type
    ELSE r[1] = "event" /\ r[2] \in {ChanTypeOf(pkt.chid), Any}

IsSysRunlevelPkt(pkt) == IsConfigChid(pkt.chid) /\ pkt.type \in {SYSREP, SYSREPRUNLEV}

(* history kept for the claims:
   regerr            a register call of the client has raised KeyError
   stable            the client's registrations that select the packet in hand and
                     have stayed registered since it was taken from the queue
   snaps             the contents the list bound to `callbacks` has had since the
                     packet in hand was taken from the queue
   last_sys_runlevel the runlevel of the last SYSREP / SYSREPRUNLEV packet handled
   running_seen      a SYSREP / SYSREPRUNLEV packet with runlevel RUNNING was
                     handled since set_runlevel(RESET) was called
   touched           the keys the handler's lookup channel_types[chid] (handler.py
                     80) has inserted into the defaultdict with the default class
                     Any, and no CHANREP has stored a class for
   infos_late        the keys inserted into channel_infos since the device was
                     connected or the table was last replaced, in insertion order
   types_late        the keys inserted into channel_types since the device was
                     connected, in insertion order *)
(* handler.py 80: the lookup inserts a key the defaultdict does not have *)
TypesLateAfterGet(pkt) ==
    IF pkt.chid \in DOMAIN config.channel_types \cup hist.touched
    THEN hist.types_late ELSE Append(hist.types_late, pkt.chid)

HistAfterGet(pkt) ==
    LET ref == resolve_callbacks(pkt)
        lst == IF ref[1] = "event" THEN resolve_event_registry(pkt)[ref[2]]
               ELSE CbList(ref)
    IN  [hist EXCEPT !.stable = {r \in Range(registered) : Matches(r, pkt)},
                     !.snaps = {lst},
                     !.quiet = FALSE,
                     !.touched = IF pkt.chid \in DOMAIN config.channel_types
                                 THEN @ ELSE @ \cup {pkt.chid},
                     !.types_late = TypesLateAfterGet(pkt)]

(* the channel records a snapshot returned by get_config refers to (nsp.py 1083:
   dict.copy() is shallow, the records are the mirror's own objects):
   orig  the records' fields when the snapshot was taken
   held  the records' fields now
   live  the channels whose record is still the object the mirror holds
   A full reply stores a new object (nsp.py 414), a scoped reply assigns the
   fields of the stored object (nsp.py 418-459). *)
SnapAfterCall(cb, pkt) ==
    IF \/ ~hist.snap.taken
       \/ cb # "_handle_chaninfo"
       \/ pkt.instrument # config.instrument
       \/ pkt.chan > config.proc_chans
    THEN hist.snap
    ELSE IF pkt.type = CHANREP
    THEN [hist.snap EXCEPT !.live = @ \ {pkt.chan}]
    ELSE IF pkt.chan \in hist.snap.live
    THEN [hist.snap EXCEPT !.held[pkt.chan] = handle_chaninfo(pkt).channel_infos[pkt.chan]]
    ELSE hist.snap

(* nsp.py 411-415: the callback stores the record and the class of the channel
   (a full-scope CHANREP that is not dropped) *)
StoresChannel(cb, pkt) ==
    /\ cb = "_handle_chaninfo"
    /\ pkt.type = CHANREP
    /\ pkt.instrument = config.instrument
    /\ pkt.chan <= config.proc_chans

HistAfterCall(cb, pkt) ==
    IF cb = "_handle_sysrep" /\ IsSysRunlevelPkt(pkt)
    THEN [hist EXCEPT !.last_sys_runlevel = pkt.runlevel,
                      !.running_seen = IF pkt.runlevel = RUNNING THEN TRUE ELSE @]
    ELSE [hist EXCEPT
            !.snap = SnapAfterCall(cb, pkt),
            !.infos_late = IF StoresChannel(cb, pkt)
                              /\ pkt.chan \notin DOMAIN config.channel_infos
                           THEN Append(@, pkt.chan) ELSE @,
            !.types_late = IF StoresChannel(cb, pkt)
                              /\ pkt.chan \notin DOMAIN config.channel_types
                                                \cup hist.touched
                           THEN Append(@, pkt.chan) ELSE @]

(* last_time taking the timestamp of every packet *)
next_last_time_latest(pkt) == pkt.time

(* handler.py 56-57: last_time follows a packet with a later timestamp *)
next_last_time(pkt) == IF pkt.time > last_time THEN pkt.time ELSE last_time

(* handler.py 98, 113: the lookups that raise KeyError and end the thread:
   event_callbacks[chantype] for a channel whose CHANREP matched no class rule
   (channel_types holds None), and group_nchans[pkt_type] for a group that has
   callbacks and no GROUPREP yet *)
HandlerKeyError(pkt) ==
    \/ /\ ~IsConfigChid(pkt.chid)
       /\ pkt.chid # GROUP
       /\ ChanTypeOf(pkt.chid) = NoChanType
    \/ /\ ~IsConfigChid(pkt.chid)
       /\ pkt.chid = GROUP
       /\ pkt.type \in DOMAIN group_callbacks
       /\ group_callbacks[pkt.type] # <<>>
       /\ pkt.type \notin DOMAIN config.group_nchans

(* the group packet handed to the callbacks with its samples as received *)
group_packet_as_received(pkt) == pkt

(* handler.py 111-116: a group packet of a group with an odd number of channels
   has its sample array cut to that number (a slice: at most the samples there
   are) *)
group_packet(pkt) ==
    IF /\ ~IsConfigChid(pkt.chid)
       /\ pkt.chid = GROUP
       /\ "data" \in DOMAIN pkt
       /\ pkt.type \in DOMAIN config.group_nchans
       /\ config.group_nchans[pkt.type] % 2 # 0
    THEN [pkt EXCEPT !.data = SubSeq(@, 1, IF config.group_nchans[pkt.type] < Len(@)
                                          THEN config.group_nchans[pkt.type]
                                          ELSE Len(@))]
    ELSE pkt

(* handler.py 45-116: take a packet, update the counters, bind `callbacks`;
   with no callback the packet is finished at once; a KeyError ends the thread *)
HandlerGet ==
    /\ hpc = "idle"
    /\ recv_q # <<>>
    /\ LET pkt == Head(recv_q)
           ref == resolve_callbacks(pkt)
           reg == resolve_event_registry(pkt)
           lst == IF ref[1] = "event" THEN reg[ref[2]] ELSE CbList(ref)
       IN  /\ recv_q' = Tail(recv_q)
           /\ pkts_received' = pkts_received + 1
           /\ last_time' = next_last_time(pkt)
           /\ last_group_time' =
                 IF pkt.time > last_time /\ pkt.chid = GROUP /\ pkt.type = 6
                 THEN pkt.time ELSE last_group_time
           /\ warnings' =
                 IF /\ ~(pkt.time > last_time)
                    /\ pkt.chid = GROUP /\ pkt.type = 6
                    /\ pkt.time < last_group_time
                 THEN warnings + 1 ELSE warnings
           /\ IF HandlerKeyError(pkt)
              THEN /\ hpc' = "crashed"
                   /\ hcls' = IF pkt.chid = GROUP
                              THEN make_packet_class(pkt.chid, pkt.type,
                                                     ChanTypeOf(pkt.chid))
                              ELSE hcls
                   /\ hist' = [hist EXCEPT
                                 !.quiet = FALSE,
                                 !.touched = IF pkt.chid \in DOMAIN config.channel_types
                                             THEN @ ELSE @ \cup {pkt.chid},
                                 !.types_late = TypesLateAfterGet(pkt)]
                   /\ UNCHANGED <<event_callbacks, hpkt, hcbs, hidx>>
              ELSE /\ event_callbacks' = reg
                   /\ hist' = HistAfterGet(pkt)
                   /\ IF lst # <<>>
                      THEN /\ hpc' = "dispatch"
                           /\ hpkt' = group_packet(pkt)
                           /\ hcbs' = ref
                           /\ hidx' = 1
                      ELSE UNCHANGED <<hpc, hpkt, hcbs, hidx>>
                   /\ hcls' = IF lst # <<>> \/ IsConfigChid(pkt.chid)
                              THEN make_packet_class(pkt.chid, pkt.type,
                                                     ChanTypeOf(pkt.chid))
                              ELSE "none"
    /\ UNCHANGED <<config, events, config_callbacks, group_callbacks, stop_event, mk,
                 codec>>
    /\ UNCHANGED <<transportv, caller, calls, rcvd, registered>>

(* handler.py 121-123: one turn of `for cb in callbacks: cb(pkt)`: the callback
   at the loop's position runs.  The loop tests the list again after the
   callback has returned (HandlerDone), so a callback appended meanwhile, also
   during the last turn, is still called *)
HandlerCall ==
    /\ hpc = "dispatch"
    /\ hidx <= Len(CbList(hcbs))
    /\ LET cb == CbList(hcbs)[hidx]
       IN  IF Raises(cb, hpkt)
           THEN /\ hpc' = "crashed"
                /\ UNCHANGED <<config, events, calls, hidx, hist>>
           ELSE /\ config' = CallbackConfig(cb, hpkt)
                /\ events' = CallbackEvents(cb, hpkt)
                /\ calls' = IF cb \in UserCallbacks
                            THEN Append(calls, <<cb, hpkt.seq>>) ELSE calls
                /\ hist' = HistAfterCall(cb, hpkt)
                /\ hidx' = hidx + 1
                /\ hpc' = hpc
    /\ UNCHANGED <<registries, pkts_received, last_time, last_group_time, warnings,
                 hpkt, hcbs, hcls, mk, codec, stop_event, recv_q>>
    /\ UNCHANGED <<transportv, caller, rcvd, registered>>

(* handler.py 121: the for-loop finds no element at its position in the list as
   it is now (all were called, or the list shrank); the thread is back at the
   queue *)
HandlerDone ==
    /\ hpc = "dispatch"
    /\ hidx > Len(CbList(hcbs))
    /\ hpc' = "idle"
    /\ UNCHANGED <<mirror, registries, pkts_received, last_time, last_group_time,
                   warnings, hpkt, hcbs, hidx, hcls, mk, codec,
                   stop_event, recv_q, transportv, caller, ghost>>

(* handler.py 45-46: get(block=False) finds the queue empty *)
HandlerEmpty ==
    /\ hpc = "idle"
    /\ recv_q = <<>>
    /\ hpc' = "wait"
    /\ UNCHANGED <<mirror, registries, pkts_received, last_time, last_group_time,
                   warnings, hpkt, hcbs, hidx, hcls, mk, codec,
                   stop_event, recv_q, transportv, caller, ghost>>

(* handler.py 48-51: _stop_event.wait(0.001) times out with the event not set;
   `continue` takes the thread back to the queue *)
HandlerWaitTimeout ==
    /\ hpc = "wait"
    /\ ~stop_event
    /\ hpc' = "idle"
    /\ UNCHANGED <<mirror, registries, pkts_received, last_time, last_group_time,
                   warnings, hpkt, hcbs, hidx, hcls, mk, codec,
                   stop_event, recv_q, transportv, caller, ghost>>

(* the handler testing the stop event at the top of its loop, before it looks
   at the queue *)
HandlerExit_before_queue ==
    /\ hpc = "idle"
    /\ stop_event
    /\ hpc' = "exited"
    /\ UNCHANGED <<mirror, registries, pkts_received, last_time, last_group_time,
                   warnings, hpkt, hcbs, hidx, hcls, mk, codec,
                   stop_event, recv_q, transportv, caller, ghost>>

(* handler.py 48-49: the wait returns True and the loop is left; the queue is
   not looked at again (it was empty when the wait began) *)
HandlerExit ==
    /\ hpc = "wait"
    /\ stop_event
    /\ hpc' = "exited"
    /\ UNCHANGED <<mirror, registries, pkts_received, last_time, last_group_time,
                   warnings, hpkt, hcbs, hidx, hcls, mk, codec,
                   stop_event, recv_q, transportv, caller, ghost>>

(* ------------------------------------------------- callback registration *)
RegistryOf(kind) ==
    CASE kind = "config" -> config_callbacks
      [] kind = "group" -> group_callbacks
      [] OTHER -> event_callbacks

(* keys the client registers on in the dispatch specifications *)
RegKeys == {<<"event", Any>>, <<"event", FrontEnd>>, <<"group", 1>>,
            <<"config", SYSHEARTBEAT>>}

(* base.py 39-49: group_callbacks and event_callbacks are plain dicts keyed by
   1..6 and by the members of CBChannelType, and a lookup with another key raises
   KeyError; config_callbacks is a defaultdict and has a list for every key *)
register_raises(kind, key) ==
    \/ kind = "group" /\ key \notin DOMAIN group_callbacks
    \/ kind = "event" /\ key \notin DOMAIN event_callbacks

(* NSPDevice.register_{config,group,event}_callback: list.append; the lookup
   config_callbacks[pkt_type] creates the list of a type that has none *)
register_callback(kind, key, cb) ==
    /\ config_callbacks' = IF kind = "config"
                           THEN [k \in DOMAIN config_callbacks \cup {key} |->
                                   IF k = key
                                   THEN Append(CbList(<<"config", key>>), cb)
                                   ELSE config_callbacks[k]]
                           ELSE config_callbacks
    /\ group_callbacks' = IF kind = "group" /\ ~register_raises(kind, key)
                          THEN [group_callbacks EXCEPT ![key] = Append(@, cb)]
                          ELSE group_callbacks
    /\ event_callbacks' = IF kind = "event" /\ ~register_raises(kind, key)
                          THEN [event_callbacks EXCEPT ![key] = Append(@, cb)]
                          ELSE event_callbacks

(* NSPDevice.unregister_{config,group,event}_callback: list.remove if present *)
unregister_callback(kind, key, cb) ==
    /\ config_callbacks' = IF kind = "config"
                           THEN [k \in DOMAIN config_callbacks \cup {key} |->
                                   IF k = key
                                   THEN Remove(CbList(<<"config", key>>), cb)
                                   ELSE config_callbacks[k]]
                           ELSE config_callbacks
    /\ group_callbacks' = IF kind = "group" /\ ~register_raises(kind, key)
                          THEN [group_callbacks EXCEPT ![key] = Remove(@, cb)]
                          ELSE group_callbacks
    /\ event_callbacks' = IF kind = "event" /\ ~register_raises(kind, key)
                          THEN [event_callbacks EXCEPT ![key] = Remove(@, cb)]
                          ELSE event_callbacks

(* the keys of the event registry among them *)
EventKeys == {k \in RegKeys : k[1] = "event"}

(* the client registers a callback it does not hold registered on that key; a
   call that raises KeyError registers nothing *)
RegisterOn(keys) ==
    /\ hist.nreg < MaxRegs
    /\ \E k \in keys, cb \in UserCallbacks :
         /\ <<k[1], k[2], cb>> \notin Range(registered)
         /\ IF register_raises(k[1], k[2])
            THEN /\ UNCHANGED <<registries, registered>>
                 /\ hist' = [hist EXCEPT !.nreg = @ + 1, !.regerr = TRUE]
            ELSE /\ register_callback(k[1], k[2], cb)
                 /\ registered' = Append(registered, <<k[1], k[2], cb>>)
                 /\ hist' = [hist EXCEPT
                               !.nreg = @ + 1,
                               !.ever = @ \cup {<<k[1], k[2], cb>>},
                               !.snaps = IF hpc = "dispatch"
                                         THEN @ \cup {IF <<k[1], k[2]>> = hcbs
                                                      THEN Append(CbList(hcbs), cb)
                                                      ELSE CbList(hcbs)}
                                         ELSE @]
    /\ UNCHANGED <<mirror, handler, stop_event, recv_q, transportv, caller, calls, rcvd>>

(* the client registers an event callback while the handler runs *)
Register == RegisterOn(EventKeys)

(* the client unregisters one of its callbacks *)
Unregister ==
    /\ hist.nreg < MaxRegs
    /\ \E r \in Range(registered) :
         /\ unregister_callback(r[1], r[2], r[3])
         /\ registered' = Remove(registered, r)
         /\ hist' = [hist EXCEPT !.nreg = @ + 1,
                                 !.stable = IF hpc = "dispatch" THEN @ \ {r} ELSE @,
                                 !.snaps = IF hpc = "dispatch"
                                           THEN @ \cup {IF <<r[1], r[2]>> = hcbs
                                                        THEN Remove(CbList(hcbs), r[3])
                                                        ELSE CbList(hcbs)}
                                           ELSE @]
    /\ UNCHANGED <<mirror, handler, stop_event, recv_q, transportv, caller, calls, rcvd>>

(* --------------------------------------------- packets of the dispatch specs *)
(* datagram.py 55-61: the receive context puts a packet on the receive queue.
   An event packet of channel 1 (front end), one of channel 3 (no CHANREP: Any),
   a group-1 sample packet and a SYSHEARTBEAT configuration packet. *)
DispatchPackets ==
    { [time |-> 2, chid |-> 1, type |-> 1, instrument |-> 0],
      [time |-> 2, chid |-> 3, type |-> 1, instrument |-> 0],
      [time |-> 2, chid |-> GROUP, type |-> 1, instrument |-> 0],
      [time |-> 2, chid |-> CONFIGURATION, type |-> SYSHEARTBEAT, instrument |-> 0] }

WithSeq(p, n) == [q \in DOMAIN p \cup {"seq"} |-> IF q = "seq" THEN n ELSE p[q]]

EventPackets == {p \in DispatchPackets : ~IsConfigChid(p.chid) /\ p.chid # GROUP}

RecvFrom(pkts) ==
    /\ Len(rcvd) < MaxPkts
    /\ io.recv = "running"
    /\ ~io.closed
    /\ \E p \in pkts :
         LET q == WithSeq(p, Len(rcvd) + 1)
         IN  /\ recv_q' = Append(recv_q, q)
             /\ rcvd' = Append(rcvd, [pkt |-> q, regs |-> hist.ever])
    /\ UNCHANGED <<mirror, registries, handler, stop_event, transportv, caller,
                   calls, registered, hist>>

(* any packet arrives *)
Recv == RecvFrom(DispatchPackets)

(* an event packet arrives *)
RecvEvent == RecvFrom(EventPackets)

(* ------------------------------------------------------------ the instrument *)
(* a configuration packet from the instrument (instrument id 0) *)
CfgPkt(type, body) ==
    [q \in {"time", "chid", "type", "instrument", "seq"} \cup DOMAIN body |->
        CASE q = "time" -> IF "time" \in DOMAIN body THEN body.time ELSE 2
          [] q = "chid" -> CONFIGURATION
          [] q = "type" -> type
          [] q = "instrument" -> 0
          [] q = "seq" -> 0
          [] OTHER -> body[q]]

(* a SYSINFO-layout packet; protocol 4.2 adds the transport field *)
SysPkt(type, rl) ==
    CfgPkt(type, [runlevel |-> rl, sysfreq |-> 30000, transport |-> 1,
                  has_transport |-> dev.proto42])

ChanPkt(type, rec) == CfgPkt(type, rec)

RECURSIVE ChanReps(_, _)
(* CHANREP for the channels c..NChans *)
ChanReps(c, chans) ==
    IF c > NChans THEN <<>>
    ELSE <<ChanPkt(CHANREP, chans[c])>> \o ChanReps(c + 1, chans)

(* the GROUPINFO of the six sampling groups: the channels that sample in the
   group, in channel order *)
GroupReps(chans) ==
    [g \in 1..6 |->
        LET members == SelectSeq([c \in 1..NChans |-> c],
                                 LAMBDA c : chans[c].smpgroup = g)
        IN  CfgPkt(GROUPREP, [group |-> g, length |-> Len(members),
                              chan_list |-> members])]

(* what the instrument sends back for a request (nsp.py: the comments of
   _startup_sequence, get_config and _handle_chaninfo):
     SYSSETRUNLEV(RUNNING)   SYSREPRUNLEV with the current runlevel
     SYSSETRUNLEV(HARDRESET) SYSREPRUNLEV 20, then 30
     SYSSETRUNLEV(RESET)     SYSREPRUNLEV 40, then 50
     REQCONFIGALL            the cascade of nsp.py 1052-1066 (ConfigCascade),
                             the packets the device hands to _black_hole
                             included: the handler takes and counts each of
                             them
     CHANSETAINP, CHANSETSMP, CHANSETAUTOTHRESHOLD, CHANSETLABEL, CHANSETSPK,
     CHANSETSPKTHR, CHANSETSPKHPS
                             the scoped reply CHANREPAINP, CHANREPSMP,
                             CHANREPAUTOTHRESHOLD, CHANREPLABEL, CHANREPSPK,
                             CHANREPSPKTHR, CHANREPSPKHPS
     LNCSET                  LNCREP
     SYSSETTRANSPORT         SYSREPTRANSPORT (nsp.py 1161-1162), with the
                             transport the instrument uses
     CHANSET, NPLAYSET       nothing the device waits for *)
(* n packets of a type the device hands to _black_hole; the handler reads
   nothing but their header *)
Copies(n, type) == [i \in 1..n |-> CfgPkt(type, <<>>)]

(* nsp.py 1052-1066: the answer to REQCONFIGALL: 1 the echo, 2 PROCINFO, 3-4
   SS_DETECT and SS_ARTIF_REJECT, 5 one SS_NOISE_BOUNDARY per channel, 6-7
   SS_STATISTICS and SS_STATUS, 8 six GROUPINFO, 9 twelve FILTINFO, 10 fourteen
   BANKINFO, 11 one CHANINFO per channel, 12 one NTRODEINFO per channel, 13 two
   SS_MODELSET per channel, 14 LNC, 15 FILECFG, (the NPLAYREP of a replayer,)
   16 the final SYSINFO *)
ConfigCascade ==
    <<CfgPkt(REPCONFIGALL, <<>>), CfgPkt(PROCREP, [chancount |-> NChans])>>
    \o Copies(1, SS_DETECTREP) \o Copies(1, SS_ARTIF_REJECTREP)
    \o Copies(NChans, SS_NOISE_BOUNDARYREP)
    \o Copies(1, SS_STATISTICSREP) \o Copies(1, SS_STATUSREP)
    \o GroupReps(dev.chans)
    \o Copies(12, FILTREP)
    \o Copies(14, BANKREP)
    \o ChanReps(1, dev.chans)
    \o Copies(NChans, REPNTRODEINFO)
    \o Copies(2 * NChans, SS_MODELREP)
    \o Copies(1, LNCREP) \o Copies(1, REPFILECFG)
    \o (IF dev.nplay THEN <<CfgPkt(NPLAYREP, [mode |-> NPLAY_NONE])>> ELSE <<>>)
    \o <<SysPkt(SYSREP, dev.runlevel)>>

(* the fields of the channel record a write request carries for the instrument *)
WrittenFields(type) ==
    CASE type = CHANSETAINP -> {"ainpopts", "lncrate"}
      [] type = CHANSETSMP -> {"smpgroup", "smpfilter"}
      [] type = CHANSETAUTOTHRESHOLD -> {"spkopts"}
      [] type = CHANSETLABEL -> {"label"}
      [] type = CHANSETSPK -> {"spkopts", "spkfilter"}
      [] type = CHANSETSPKTHR -> {"spkthrlevel"}
      [] type = CHANSETSPKHPS -> {"spkhoops"}
      [] OTHER -> {}

(* the reply type of a write request *)
ReplyType(type) ==
    CASE type = CHANSETAINP -> CHANREPAINP
      [] type = CHANSETSMP -> CHANREPSMP
      [] type = CHANSETAUTOTHRESHOLD -> CHANREPAUTOTHRESHOLD
      [] type = CHANSETLABEL -> CHANREPLABEL
      [] type = CHANSETSPK -> CHANREPSPK
      [] type = CHANSETSPKTHR -> CHANREPSPKTHR
      [] type = CHANSETSPKHPS -> CHANREPSPKHPS
      [] OTHER -> 0

(* the instrument's record of the channel after a write request *)
DevWrite(msg) ==
    [f \in DOMAIN dev.chans[msg.chan] |->
        IF f \in WrittenFields(msg.type) /\ f \in DOMAIN msg THEN msg[f]
        ELSE dev.chans[msg.chan][f]]

DevReply(msg) ==
    CASE msg.type = SYSSETRUNLEV /\ msg.runlevel = HARDRESET ->
            <<SysPkt(SYSREPRUNLEV, HARDRESET), SysPkt(SYSREPRUNLEV, STANDBY)>>
      [] msg.type = SYSSETRUNLEV /\ msg.runlevel = RESET ->
            <<SysPkt(SYSREPRUNLEV, RESET), SysPkt(SYSREPRUNLEV, RUNNING)>>
      [] msg.type = SYSSETRUNLEV /\ msg.runlevel \notin {HARDRESET, RESET} ->
            <<SysPkt(SYSREPRUNLEV, dev.runlevel)>>
      [] msg.type = REQCONFIGALL -> ConfigCascade
      [] WrittenFields(msg.type) # {} ->
            <<ChanPkt(ReplyType(msg.type), DevWrite(msg))>>
      [] msg.type = LNCSET ->
            <<CfgPkt(LNCREP, [lncFreq |-> msg.lncFreq, lncRefChan |-> msg.lncRefChan,
                              lncGlobalMode |-> msg.lncGlobalMode])>>
      [] msg.type = SYSSETTRANSPORT -> <<SysPkt(SYSREPTRANSPORT, dev.runlevel)>>
      [] OTHER -> <<>>

(* the instrument after the request *)
DevAfter(msg) ==
    CASE msg.type = SYSSETRUNLEV /\ msg.runlevel = HARDRESET -> [dev EXCEPT !.runlevel = STANDBY]
      [] msg.type = SYSSETRUNLEV /\ msg.runlevel = RESET -> [dev EXCEPT !.runlevel = RUNNING]
      [] WrittenFields(msg.type) # {} -> [dev EXCEPT !.chans[msg.chan] = DevWrite(msg)]
      [] OTHER -> dev

(* the instrument broadcasts a SYSREPTRANSPORT nobody on this host asked for *)
DevBroadcast ==
    /\ dev.unsolicited < MaxUnsolicited
    /\ dev.drops + dev.unsolicited < MaxDisturbances
    /\ io.recv = "running"
    /\ ~io.closed
    /\ net' = Append(net, SysPkt(SYSREPTRANSPORT, dev.runlevel))
    /\ dev' = [dev EXCEPT !.unsolicited = @ + 1]
    /\ UNCHANGED <<mirror, registries, handler, stop_event, recv_q, send_q, wire, io,
                   caller, ghost>>

(* ------------------------------------------------------------- the transport *)
(* the "quit" sentinel of the send queue *)
Quit == [quit |-> TRUE]

IsQuit(msg) == "quit" \in DOMAIN msg

(* datagram.py 166-176, _sender_coro: one message from the send queue; the
   sentinel ends the coroutine, anything else goes to sendto.  The sentinel is
   put after the transport was closed (stop(), line 124-125) or lost (line
   161-164), and the loop runs the connection-lost callback before that put.
   A transport that is closing still has its socket and transmits; once the
   connection-lost callback has run the socket is gone and sendto raises
   AttributeError out of the coroutine: run() ends with the exception, line 121
   is not reached *)
Sender ==
    /\ io.send = "running"
    /\ send_q # <<>>
    /\ IsQuit(Head(send_q)) => io.lost
    /\ send_q' = Tail(send_q)
    /\ IF IsQuit(Head(send_q))
       THEN /\ io' = [io EXCEPT !.send = "exited"]
            /\ UNCHANGED <<wire, net, dev>>
       ELSE IF io.lost
       THEN /\ io' = [io EXCEPT !.send = "crashed"]
            /\ UNCHANGED <<wire, net, dev>>
       ELSE /\ wire' = Append(wire, Head(send_q))
            /\ net' = net \o DevReply(Head(send_q))
            /\ dev' = DevAfter(Head(send_q))
            /\ io' = [io EXCEPT !.pending = IF @ > 0 THEN @ - 1 ELSE 0]
    /\ UNCHANGED <<mirror, registries, handler, stop_event, recv_q, caller, ghost>>

(* datagram.py 55-61, datagram_received: the packet goes on the receive queue
   (the queue has no limit; the model lets the network run ahead of the handler
   by MaxBacklog packets).  A transport that was made with None for the queue
   (io.queue is FALSE) raises AttributeError at the put; the loop logs the
   exception and the packet is gone *)
Deliver ==
    /\ io.recv = "running"
    /\ ~io.closed
    /\ net # <<>>
    /\ Len(recv_q) < MaxBacklog
    /\ recv_q' = IF io.queue THEN Append(recv_q, Head(net)) ELSE recv_q
    /\ net' = Tail(net)
    /\ UNCHANGED <<mirror, registries, handler, stop_event, send_q, wire, io, dev,
                   caller, ghost>>

(* a datagram is lost (UDP, at most MaxDrops of them), or arrives at a closed
   socket *)
Drop ==
    /\ net # <<>>
    /\ \/ dev.drops < MaxDrops /\ dev.drops + dev.unsolicited < MaxDisturbances
       \/ io.closed
    /\ net' = Tail(net)
    /\ dev' = [dev EXCEPT !.drops = IF io.closed THEN @ ELSE @ + 1]
    /\ UNCHANGED <<mirror, registries, handler, stop_event, recv_q, send_q, wire, io,
                   caller, ghost>>

(* datagram.py 66-72, connection_lost: the loop runs the transport's
   connection-lost callback, scheduled by close() or by a fatal socket error; it
   resolves the future _receiver_coro awaits and drops the socket.  The
   callback is queued behind the sender's pending wake-up, which transmits the
   messages that were on the send queue when the caller closed the transport *)
ConnectionLost ==
    /\ io.closed
    /\ ~io.lost
    /\ io.pending = 0
    /\ io' = [io EXCEPT !.lost = TRUE]
    /\ UNCHANGED <<mirror, registries, handler, stop_event, recv_q, send_q, wire, net,
                   dev, caller, ghost>>

(* datagram.py 161-164, _receiver_coro after the connection is lost: it posts the
   sentinel for the sender and ends.  Its wake-up is scheduled by the
   connection-lost callback, before the sender can raise, so it is resumed and
   puts the sentinel also after the sender's exception: the loop stops only
   behind it *)
ReceiverLost ==
    /\ io.recv = "running"
    /\ io.lost
    /\ io' = [io EXCEPT !.recv = "exited"]
    /\ send_q' = Append(send_q, Quit)
    /\ UNCHANGED <<mirror, registries, handler, stop_event, recv_q, wire, net, dev,
                   caller, ghost>>

(* datagram.py 118-121, run(): both coroutines are done, _send_q = None *)
ThreadExit ==
    /\ io.recv = "exited"
    /\ io.send = "exited"
    /\ ~io.done
    /\ io' = [io EXCEPT !.done = TRUE]
    /\ send_q' = <<>>
    /\ UNCHANGED <<mirror, registries, handler, stop_event, recv_q, wire, net, dev,
                   caller, ghost>>

(* datagram.py 66-70, 161: the connection is lost without a close from this
   side (a fatal socket error): the transport stops reading and schedules its
   connection-lost callback, behind the wake-up of a sender that waits with
   requests on the queue *)
ConnLost ==
    /\ io.recv = "running"
    /\ ~io.closed
    /\ io' = [io EXCEPT !.closed = TRUE,
                        !.pending = IF io.send = "running" THEN Len(send_q) ELSE 0]
    /\ UNCHANGED <<mirror, registries, handler, stop_event, recv_q, send_q, wire, net,
                   dev, caller, ghost>>

(* the transport thread has ended: run() has returned, or the sender's
   exception has ended it (the loop stops once the receiver has been resumed) *)
ThreadDead == io.done \/ (io.send = "crashed" /\ io.recv = "exited")

(* datagram.py 118-121, 29, 136: the event loop has stopped (both coroutines are
   done, the sender by its sentinel or by its exception) and _send_q is still
   set: a sync_put scheduled now is never executed and its result() never
   returns *)
SendStuck ==
    /\ ~io.done
    /\ io.recv = "exited"
    /\ io.send \in {"exited", "crashed"}

(* datagram.py 117-121: run_until_complete has returned, both coroutines done,
   and run() has not yet executed `self._send_q = None` *)
LoopEnded ==
    /\ ~io.done
    /\ io.recv = "exited"
    /\ io.send = "exited"

(* datagram.py 128, `self._send_q is None`: the transport thread has not started
   its loop or has left run() *)
NoSendQueue == io.done \/ io.recv = "off"

(* send() putting the message on the queue whatever the state of the thread *)
io_send_always(msg) == Append(send_q, msg)

(* datagram.py 127-136, send(): dropped when the send queue does not exist *)
io_send(msg) == IF io.done \/ io.recv = "off" THEN send_q ELSE Append(send_q, msg)

(* ------------------------------------------------------------- _send_packet *)
(* nsp.py 1297-1305: the steps of _send_packet, in order *)
SendPacketOrder_send_first == <<"send", "clear", "wait">>

SendPacketOrder == <<"clear", "send", "wait">>

(* nsp.py 1288, `pkt.header.time = pkt.header.time or self.last_time`: a header
   time of zero becomes the device's last_time, assigned on the object the call
   was given *)
header_time(pkt) == IF pkt.time = 0 THEN [pkt EXCEPT !.time = last_time] ELSE pkt

(* nsp.py 1281-1289: a call of _send_packet(pkt, event, timeout) at its entry,
   the header time filled in and the bytes taken; ev = "none" is event=None and
   timed = FALSE is timeout=None; dropped: send() found no send queue; tested:
   send() has found the send queue set at line 128 of datagram.py and has not
   yet read it again at line 136 *)
SendPacketCall(pkt, ev, timed) ==
    [phase |-> "run", step |-> 1, pkt |-> header_time(pkt), ev |-> ev,
     timed |-> timed, res |-> TRUE, cleared |-> FALSE, dropped |-> FALSE,
     tested |-> FALSE]

SpStep == IF sp.phase = "run" THEN SendPacketOrder[sp.step] ELSE "none"

SpAdvance(f) ==
    IF f.step = 3 \/ (f.ev = "none" /\ SendPacketOrder[f.step + 1] = "wait")
    THEN [f EXCEPT !.phase = "ret"]
    ELSE [f EXCEPT !.step = @ + 1]

(* nsp.py 1297-1298: event.clear(); hist.quiet: the handler was not running a
   callback at the clear and has taken no packet since *)
SendPacketClear ==
    /\ SpStep = "clear"
    /\ events' = IF sp.ev # "none" THEN [events EXCEPT ![sp.ev] = FALSE] ELSE events
    /\ sp' = SpAdvance([sp EXCEPT !.cleared = TRUE])
    /\ hist' = [hist EXCEPT !.quiet = (hpc # "dispatch")]
    /\ UNCHANGED <<config, registries, handler, stop_event, recv_q, transportv,
                   pc, gc, cf, ret, calls, rcvd, registered>>

(* the result of a call that an exception of send() has left: the exception
   passes through _send_packet and every function above it (none catches it) to
   the client, or out of connect() when connect() has not returned yet; op is
   the operation in progress *)
RaisedResult(op, exc) ==
    IF ret.returned THEN [ret EXCEPT !.client = ClientResult(op, exc, 0)]
    ELSE [ret EXCEPT !.connect = exc]

(* nsp.py 1299, datagram.py 128: send() is entered and finds `self._send_q is
   None` false.  send() reads _send_q twice, at line 128 and at line 136, under
   no lock; the only assignment that can fall between the two reads is line 121
   of run(), which follows the end of the loop, so this step of its own is taken
   in the states where the loop has ended and line 121 has not been executed.
   Everywhere else the two reads see the same value and SendPacketSend is both *)
SendPacketTest ==
    /\ SpStep = "send"
    /\ ~sp.tested
    /\ LoopEnded
    /\ sp' = [sp EXCEPT !.tested = TRUE]
    /\ UNCHANGED <<mirror, registries, handler, stop_event, recv_q, transportv,
                   pc, gc, cf, ret, ghost>>

(* nsp.py 1299: self._io_thread.send(send_bytes); the bytes are those of the
   packet with the header time of line 1288 (sp.pkt, see SendPacketCall).
   datagram.py 127-136: the message is dropped when the send queue does not
   exist at line 128; when run() has set _send_q to None after the test of line
   128, line 136 raises AttributeError (None has no sync_put), which leaves
   _send_packet and the call that made it; when the loop has stopped with
   _send_q still set, sync_put never returns *)
SendPacketSend ==
    /\ SpStep = "send"
    /\ IF sp.tested /\ io.done
       THEN /\ sp' = [sp EXCEPT !.phase = "raised"]
            /\ pc' = "raised"
            /\ ret' = RaisedResult(pc, "AttributeError")
            /\ UNCHANGED <<send_q, hist>>
       ELSE IF SendStuck
       THEN /\ sp' = [sp EXCEPT !.phase = "blocked"]
            /\ UNCHANGED <<send_q, hist, pc, ret>>
       ELSE /\ send_q' = io_send(sp.pkt)
            /\ sp' = SpAdvance([sp EXCEPT !.dropped = NoSendQueue])
            /\ hist' = [hist EXCEPT
                          !.clear_first = @ /\ (sp.ev = "none" \/ sp.cleared),
                          !.sent = Append(@, sp.pkt)]
            /\ UNCHANGED <<pc, ret>>
    /\ UNCHANGED <<mirror, registries, handler, stop_event, recv_q, wire, net, io, dev,
                   gc, cf, calls, rcvd, registered>>

(* nsp.py 1301: event.wait returns True, the flag is set *)
SendPacketWaitSet ==
    /\ SpStep = "wait"
    /\ sp.ev # "none"
    /\ events[sp.ev]
    /\ sp' = [sp EXCEPT !.phase = "ret", !.res = TRUE]
    /\ UNCHANGED <<mirror, registries, handler, stop_event, recv_q, transportv,
                   pc, gc, cf, ret, ghost>>

(* what _send_packet returns when the wait times out *)
wait_timeout_result == FALSE

(* nsp.py 1301-1304: the timeout expires with the flag not set *)
SendPacketWaitTimeout ==
    /\ SpStep = "wait"
    /\ sp.ev # "none"
    /\ sp.timed
    /\ ~events[sp.ev]
    /\ sp' = [sp EXCEPT !.phase = "ret", !.res = wait_timeout_result]
    /\ UNCHANGED <<mirror, registries, handler, stop_event, recv_q, transportv,
                   pc, gc, cf, ret, ghost>>

(* --------------------------------------------------------------- get_config *)
(* nsp.py 1074-1083: what get_config(force_refresh=True) returns after the wait *)
get_config_result_needs_reply(succ) ==
    IF ~succ \/ config.proc_chans = 0
       \/ Cardinality(DOMAIN config.channel_infos) # config.proc_chans
    THEN "None" ELSE "config"

get_config_result(succ) ==
    IF config.proc_chans = 0
       \/ Cardinality(DOMAIN config.channel_infos) # config.proc_chans
    THEN "None" ELSE "config"

GetConfigCall(force, timed) ==
    [phase |-> "start", force |-> force, timed |-> timed, res |-> "None",
     sent0 |-> Len(hist.sent)]

(* a refresh that also empties channel_types *)
GetConfigClear_clears_types ==
    /\ gc.phase = "start"
    /\ gc.force
    /\ config' = [config EXCEPT !.proc_chans = 0, !.channel_infos = <<>>,
                                !.channel_types = <<>>]
    /\ gc' = [gc EXCEPT !.phase = "send"]
    /\ hist' = [hist EXCEPT !.gc = [done |-> FALSE, force |-> TRUE, sent |-> <<>>,
                                    succ |-> FALSE, res |-> "None", complete |-> FALSE],
                            !.snap.live = {}, !.infos_late = <<>>]
    /\ UNCHANGED <<events, registries, handler, stop_event, recv_q, transportv,
                   pc, sp, cf, ret, calls, rcvd, registered>>

(* the refresh with line 1043 (`self._config["instrument"] = -1`) enabled *)
GetConfigClear_resets_instrument ==
    /\ gc.phase = "start"
    /\ gc.force
    /\ config' = [config EXCEPT !.proc_chans = 0, !.channel_infos = <<>>,
                                !.instrument = -1]
    /\ gc' = [gc EXCEPT !.phase = "send"]
    /\ hist' = [hist EXCEPT !.gc = [done |-> FALSE, force |-> TRUE, sent |-> <<>>,
                                    succ |-> FALSE, res |-> "None", complete |-> FALSE],
                            !.snap.live = {}, !.infos_late = <<>>]
    /\ UNCHANGED <<events, registries, handler, stop_event, recv_q, transportv,
                   pc, sp, cf, ret, calls, rcvd, registered>>

(* nsp.py 1037-1044: the refresh clears proc_chans and channel_infos *)
GetConfigClear ==
    /\ gc.phase = "start"
    /\ gc.force
    /\ config' = [config EXCEPT !.proc_chans = 0, !.channel_infos = <<>>]
    /\ gc' = [gc EXCEPT !.phase = "send"]
    /\ hist' = [hist EXCEPT !.gc = [done |-> FALSE, force |-> TRUE, sent |-> <<>>,
                                    succ |-> FALSE, res |-> "None", complete |-> FALSE],
                            !.snap.live = {}, !.infos_late = <<>>]
    /\ UNCHANGED <<events, registries, handler, stop_event, recv_q, transportv,
                   pc, sp, cf, ret, calls, rcvd, registered>>

(* nsp.py 1045-1072: build REQCONFIGALL with header time 1 (line 1050) and send
   it, waiting on sysrep *)
GetConfigSend ==
    /\ gc.phase = "send"
    /\ sp.phase = "none"
    /\ sp' = SendPacketCall([type |-> REQCONFIGALL, time |-> 1], "sysrep", gc.timed)
    /\ gc' = [gc EXCEPT !.phase = "wait"]
    /\ hist' = hist
    /\ UNCHANGED <<mirror, registries, handler, stop_event, recv_q, transportv,
                   pc, cf, ret, calls, rcvd, registered>>

(* nsp.py 1070-1083: the wait is over; count the channel records *)
GetConfigCheck ==
    /\ gc.phase = "wait"
    /\ sp.phase = "ret"
    /\ gc' = [gc EXCEPT !.phase = "ret", !.res = get_config_result(sp.res)]
    /\ sp' = NoFrame
    /\ hist' = [hist EXCEPT
                  !.gc.done = TRUE, !.gc.succ = sp.res,
                  !.gc.sent = SubSeq(hist.sent, gc.sent0 + 1, Len(hist.sent)),
                  !.gc.res = get_config_result(sp.res),
                  !.gc.complete = (config.proc_chans # 0 /\
                       Cardinality(DOMAIN config.channel_infos) = config.proc_chans)]
    /\ UNCHANGED <<mirror, registries, handler, stop_event, recv_q, transportv,
                   pc, cf, ret, calls, rcvd, registered>>

(* nsp.py 1037, 1083: force_refresh=False returns the mirror as it is *)
GetConfigNoRefresh ==
    /\ gc.phase = "start"
    /\ ~gc.force
    /\ gc' = [gc EXCEPT !.phase = "ret", !.res = "config"]
    /\ hist' = [hist EXCEPT !.gc = [done |-> TRUE, force |-> FALSE,
                                    sent |-> SubSeq(hist.sent, gc.sent0 + 1, Len(hist.sent)),
                                    succ |-> FALSE, res |-> "config", complete |-> FALSE]]
    /\ UNCHANGED <<mirror, registries, handler, stop_event, recv_q, transportv,
                   pc, sp, cf, ret, calls, rcvd, registered>>

(* ------------------------------------------------------------- set_runlevel *)
(* nsp.py 1120-1125: the event set_runlevel waits on *)
set_runlevel_event_sysrep(run_level) == "sysrep"

set_runlevel_event(run_level) ==
    IF run_level = HARDRESET THEN "runlevel_standby"
    ELSE IF run_level = RESET THEN "runlevel_running"
    ELSE "sysrep"

(* nsp.py 1128-1132: CBError.NOREPLY exactly when the send did not succeed *)
set_runlevel_result(succ) == IF ~succ THEN CBError_NOREPLY ELSE CBError_NONE

(* nsp.py 1115-1127: set_runlevel(run_level, timeout) up to the _send_packet
   call; line 1119 sets the header time of the packet to 1 *)
SetRunlevelCall(run_level, timed) ==
    SendPacketCall([type |-> SYSSETRUNLEV, runlevel |-> run_level, time |-> 1],
                   set_runlevel_event(run_level), timed)

(* the record of the set_runlevel call that has just returned *)
SetRunlevelReturn ==
    [level |-> sp.pkt.runlevel, ev |-> sp.ev, succ |-> sp.res,
     err |-> set_runlevel_result(sp.res)]

(* nsp.py 1092-1103: the packet of set_nplay_state(val, mode, speed): it is made
   from the bytes of the NPLAYREP record the mirror holds, so it has that
   record's header time, and its type, mode, val and speed are assigned *)
nplay_packet(val, mode, speed) ==
    [type |-> NPLAYSET, mode |-> mode, val |-> val, speed |-> speed,
     time |-> CfgPkt(NPLAYREP, <<>>).time]

(* nsp.py 1269-1279: the three set_nplay_state calls of the startup sequence *)
NplayPkt_swapped(i) ==
    CASE i = 1 -> nplay_packet(0, NPLAY_NONE, 1)
      [] i = 2 -> nplay_packet(0, NPLAY_SINGLE, 0)
      [] OTHER -> nplay_packet(0, NPLAY_PAUSE, 1)

NplayPkt(i) ==
    CASE i = 1 -> nplay_packet(0, NPLAY_NONE, 1)
      [] i = 2 -> nplay_packet(0, NPLAY_PAUSE, 1)
      [] OTHER -> nplay_packet(0, NPLAY_SINGLE, 0)

(* ------------------------------------------------------ connect and startup *)
(* nsp.py 1192-1213: connect starts the transport thread, sleeps half a second,
   then either runs the startup sequence or refreshes the runlevel.  start()
   returns before the thread has run anything: the send queue and the endpoint
   exist once the thread has got that far (TransportRun, TransportStart), which the sleep
   does not wait for *)
Connect ==
    /\ pc = "init"
    /\ \E ss \in BOOLEAN :
         /\ pc' = IF ss THEN "su_running" ELSE "conn_getrl"
         /\ hist' = [hist EXCEPT !.startup = ss]
    /\ sp' = SetRunlevelCall(RUNNING, TRUE)
    /\ UNCHANGED <<mirror, registries, handler, stop_event, recv_q, transportv,
                   gc, cf, ret, calls, rcvd, registered>>

(* datagram.py 114-117, 166-168: the transport thread started by connect reaches
   run(): the loop and the send queue exist, the endpoint does not yet; the
   sender polls for self._transport *)
TransportRun ==
    /\ pc # "init"
    /\ io.recv = "off"
    /\ ~io.done
    /\ io' = [io EXCEPT !.recv = "starting", !.send = "polling"]
    /\ UNCHANGED <<mirror, registries, handler, stop_event, recv_q, send_q, wire, net,
                   dev, caller, ghost>>

(* datagram.py 138-160: create_datagram_endpoint has returned and
   self._transport is set *)
TransportStart ==
    /\ io.recv = "starting"
    /\ io' = [io EXCEPT !.recv = "running"]
    /\ UNCHANGED <<mirror, registries, handler, stop_event, recv_q, send_q, wire, net,
                   dev, caller, ghost>>

(* datagram.py 166-168: the sender wakes from its 0.1 s sleep, finds
   self._transport set and enters its loop.  When the transport was closed in
   the meantime and its connection-lost callback has not run yet, the sender
   takes the requests that are on the queue before that callback runs *)
SenderPoll ==
    /\ io.send = "polling"
    /\ io.recv \notin {"off", "starting"}
    /\ io' = [io EXCEPT !.send = "running",
                        !.pending = IF io.closed /\ ~io.lost
                                    THEN Len(SelectSeq(send_q, LAMBDA msg : ~IsQuit(msg)))
                                    ELSE @]
    /\ UNCHANGED <<mirror, registries, handler, stop_event, recv_q, send_q, wire, net,
                   dev, caller, ghost>>

(* nsp.py 1240-1250: the reply to the first request decides what follows *)
StartupAfterRunning ==
    /\ pc = "su_running"
    /\ sp.phase = "ret"
    /\ ret' = [ret EXCEPT !.set_runlevel = SetRunlevelReturn]
    /\ hist' = [hist EXCEPT !.first_timeout = ~sp.res,
                            !.rl_check1 = IF set_runlevel_result(sp.res) = CBError_NONE
                                          THEN config.runlevel ELSE @]
    /\ IF set_runlevel_result(sp.res) # CBError_NONE
       THEN /\ pc' = "disc_stop"
            /\ sp' = NoFrame
            /\ gc' = gc
       ELSE IF config.runlevel # RUNNING
       THEN /\ pc' = "su_hardreset"
            /\ sp' = SetRunlevelCall(HARDRESET, TRUE)
            /\ gc' = gc
       ELSE /\ pc' = "su_getconfig"
            /\ sp' = NoFrame
            /\ gc' = GetConfigCall(TRUE, TRUE)
    /\ UNCHANGED <<mirror, registries, handler, stop_event, recv_q, transportv, cf,
                   calls, rcvd, registered>>

(* nsp.py 1248-1256: the hard reset has returned (its result is not examined) *)
StartupAfterHardReset ==
    /\ pc = "su_hardreset"
    /\ sp.phase = "ret"
    /\ ret' = [ret EXCEPT !.set_runlevel = SetRunlevelReturn]
    /\ pc' = "su_getconfig"
    /\ sp' = NoFrame
    /\ gc' = GetConfigCall(TRUE, TRUE)
    /\ UNCHANGED <<mirror, registries, handler, stop_event, recv_q, transportv, cf,
                   ghost>>

(* nsp.py 1266-1279: the replayer branch, or the end of the sequence *)
StartupNplayOrReturn ==
    IF config.nplay
    THEN /\ pc' = "su_nplay1"
         /\ sp' = SendPacketCall(NplayPkt(1), "none", TRUE)
    ELSE /\ pc' = "conn_check"
         /\ sp' = NoFrame

(* nsp.py 1256-1266: get_config has returned; RESET unless the mirror says RUNNING *)
StartupAfterGetConfig ==
    /\ pc = "su_getconfig"
    /\ gc.phase = "ret"
    /\ gc' = NoFrame
    /\ hist' = [hist EXCEPT !.rl_check2 = config.runlevel,
                            !.reset_called = config.runlevel # RUNNING,
                            !.running_seen = IF config.runlevel # RUNNING THEN FALSE ELSE @,
                            !.nplay_check = IF config.runlevel # RUNNING THEN @
                                            ELSE IF config.nplay THEN 1 ELSE 0]
    /\ IF config.runlevel # RUNNING
       THEN /\ pc' = "su_reset"
            /\ sp' = SetRunlevelCall(RESET, FALSE)
       ELSE StartupNplayOrReturn
    /\ UNCHANGED <<mirror, registries, handler, stop_event, recv_q, transportv, cf, ret,
                   calls, rcvd, registered>>

(* nsp.py 1261-1266: the RESET call has returned *)
StartupAfterReset ==
    /\ pc = "su_reset"
    /\ sp.phase = "ret"
    /\ ret' = [ret EXCEPT !.set_runlevel = SetRunlevelReturn]
    /\ hist' = [hist EXCEPT !.nplay_check = IF config.nplay THEN 1 ELSE 0]
    /\ StartupNplayOrReturn
    /\ UNCHANGED <<mirror, registries, handler, stop_event, recv_q, transportv, gc, cf,
                   calls, rcvd, registered>>

(* nsp.py 1269-1279: the next set_nplay_state, or the sequence returns NONE *)
StartupNplay ==
    /\ \E i \in 1..3 :
         /\ pc = <<"su_nplay1", "su_nplay2", "su_nplay3">>[i]
         /\ sp.phase = "ret"
         /\ IF i < 3
            THEN /\ pc' = <<"su_nplay1", "su_nplay2", "su_nplay3">>[i + 1]
                 /\ sp' = SendPacketCall(NplayPkt(i + 1), "none", TRUE)
            ELSE /\ pc' = "conn_check"
                 /\ sp' = NoFrame
    /\ UNCHANGED <<mirror, registries, handler, stop_event, recv_q, transportv, gc, cf,
                   ret, ghost>>

(* nsp.py 1212-1227: the startup sequence returned NONE; connect returns the
   runlevel of the mirror *)
ConnectReturn ==
    /\ pc = "conn_check"
    /\ pc' = "connected"
    /\ ret' = [ret EXCEPT !.connect = config.runlevel, !.returned = TRUE]
    /\ UNCHANGED <<mirror, registries, handler, stop_event, recv_q, transportv, sp, gc,
                   cf, ghost>>

(* nsp.py 1134-1137, 1213: connect without the startup sequence; the result of the
   refresh is not examined *)
ConnectRefreshed ==
    /\ pc = "conn_getrl"
    /\ sp.phase = "ret"
    /\ pc' = "connected"
    /\ sp' = NoFrame
    /\ ret' = [ret EXCEPT !.connect = config.runlevel, !.returned = TRUE,
                          !.set_runlevel = SetRunlevelReturn]
    /\ UNCHANGED <<mirror, registries, handler, stop_event, recv_q, transportv, gc, cf,
                   ghost>>

(* --------------------------------------------------------------- disconnect *)
(* nsp.py 1229: the client calls disconnect() on a connected device *)
ClientDisconnect ==
    /\ pc = "connected"
    /\ pc' = "disc_stop"
    /\ UNCHANGED <<mirror, registries, handler, stop_event, recv_q, transportv, sp, gc,
                   cf, ret, ghost>>

(* nsp.py 1231, datagram.py 123-124: stop() closes the transport.  close() on a
   transport that is open schedules the connection-lost callback behind the
   sender's wake-up for the messages already on the queue; the loop of the
   transport thread runs on while the caller goes on to line 125 *)
DisconnectStopIO ==
    /\ pc = "disc_stop"
    /\ io.recv \notin {"off", "starting"}
    /\ pc' = "disc_quit"
    /\ io' = IF io.closed THEN io
             ELSE [io EXCEPT !.closed = TRUE,
                             !.pending = IF io.send = "running" THEN Len(send_q) ELSE 0]
    /\ UNCHANGED <<mirror, registries, handler, stop_event, recv_q, send_q, wire, net,
                   dev, sp, gc, cf, ret, ghost>>

(* datagram.py 125, 128: stop() has entered send("quit") and found the send
   queue set; as in SendPacketTest, the step is taken where run() can clear
   _send_q before line 136 reads it *)
DisconnectTestQuit ==
    /\ pc = "disc_quit"
    /\ LoopEnded
    /\ pc' = "disc_quit_put"
    /\ UNCHANGED <<mirror, registries, handler, stop_event, recv_q, transportv, sp, gc,
                   cf, ret, ghost>>

(* datagram.py 125, 127-136: stop() posts the sentinel with send("quit"); the
   call does not return when the loop has stopped and the sentinel can no
   longer be put, and posts nothing when the send queue is gone at line 128.
   When run() has set _send_q to None after the test of line 128, line 136
   raises AttributeError: the exception leaves stop() and disconnect(), the
   handler thread is not stopped and nothing is joined *)
DisconnectSendQuit ==
    /\ pc \in {"disc_quit", "disc_quit_put"}
    /\ IF pc = "disc_quit_put" /\ io.done
       THEN /\ pc' = "raised"
            /\ ret' = RaisedResult("disconnect", "AttributeError")
            /\ UNCHANGED send_q
       ELSE /\ pc' = IF SendStuck THEN "disc_blocked" ELSE "disc_hstop"
            /\ send_q' = IF SendStuck THEN send_q ELSE io_send(Quit)
            /\ UNCHANGED ret
    /\ UNCHANGED <<mirror, registries, handler, stop_event, recv_q, wire, net, io, dev,
                   sp, gc, cf, ghost>>

(* nsp.py 1231, datagram.py 124: stop() before the transport thread has created
   its endpoint: self._transport is None, close() raises AttributeError, and the
   exception leaves disconnect() and the connect() that called it; the handler
   thread is not stopped *)
DisconnectStopIOError ==
    /\ pc = "disc_stop"
    /\ io.recv \in {"off", "starting"}
    /\ pc' = "raised"
    /\ ret' = [ret EXCEPT !.connect = "AttributeError"]
    /\ UNCHANGED <<mirror, registries, handler, stop_event, recv_q, transportv,
                   sp, gc, cf, ghost>>

(* nsp.py 1232, handler.py 134-135: set the handler's stop event *)
DisconnectStopHandler ==
    /\ pc = "disc_hstop"
    /\ pc' = "disc_join_io"
    /\ stop_event' = TRUE
    /\ UNCHANGED <<mirror, registries, handler, recv_q, transportv, sp, gc, cf, ret,
                   ghost>>

(* nsp.py 1234: join the transport thread *)
DisconnectJoinIO ==
    /\ pc = "disc_join_io"
    /\ ThreadDead
    /\ pc' = "disc_join_h"
    /\ UNCHANGED <<mirror, registries, handler, stop_event, recv_q, transportv, sp, gc,
                   cf, ret, ghost>>

(* nsp.py 1235-1237, 1227: join the handler thread; a connect that disconnected
   returns its local runlevel, 0 *)
DisconnectJoinHandler ==
    /\ pc = "disc_join_h"
    /\ hpc \in {"exited", "crashed"}
    /\ pc' = "returned"
    /\ ret' = [ret EXCEPT !.returned = TRUE]
    /\ UNCHANGED <<mirror, registries, handler, stop_event, recv_q, transportv, sp, gc,
                   cf, ghost>>

(* -------------------------------------------------------- configure_channel *)
(* nsp.py 606-609: the CHANSETAINP packet of _toggle_channel_ainp_flag, built from
   a copy of the mirror's record: the flag is cleared, then set again if enable *)
toggle_packet_keep(rec, flag, enable) ==
    [rec EXCEPT !.type = CHANSETAINP]

toggle_packet(rec, flag, enable) ==
    [rec EXCEPT !.type = CHANSETAINP,
                !.ainpopts = BitOr(BitClear(@, flag), IF enable THEN flag ELSE 0)]

(* the LNC write with the mask left as it is *)
lnc_packet_no_clear(rec, v) ==
    [rec EXCEPT !.type = CHANSETAINP,
                !.ainpopts = IF v # 0 THEN BitOr(@, lnc_runsoft) ELSE @]

(* nsp.py 737-741, _configure_channel_lnc: the CHANSETAINP packet built from a
   copy of the mirror's record *)
lnc_packet(rec, v) ==
    [rec EXCEPT !.type = CHANSETAINP,
                !.ainpopts = IF v # 0 THEN BitOr(BitClear(@, lnc_mask), lnc_runsoft)
                             ELSE BitClear(@, lnc_mask)]

(* nsp.py 645: {1: 5, 2: 6, 3: 7, 4: 10}.get(attr_value, 0) *)
smpfilter_for(g) ==
    CASE g = 1 -> 5 [] g = 2 -> 6 [] g = 3 -> 7 [] g = 4 -> 10 [] OTHER -> 0

(* nsp.py 641-645: the CHANSETSMP packet *)
smpgroup_packet(rec, g) ==
    [rec EXCEPT !.type = CHANSETSMP, !.smpgroup = g, !.smpfilter = smpfilter_for(g)]

(* nsp.py 611, 647: the chaninfo event if timeout > 0, else no event *)
configure_event(timed) == IF timed THEN "chaninfo" ELSE "none"

(* nsp.py 293-304: the attributes of configure_channel whose function sends one
   packet and raises when _send_packet fails *)
CheckedAttrs == {"smpfilter", "label", "lnc", "lnc_rate", "dc_offset", "spkfilter",
                 "spkthrlevel"}

(* nsp.py 993-998: the attributes of configure_channel_spike next to
   autothreshold *)
SpikeAttrs == {"enable", "hoops"}

(* the attributes the client writes: those of configure_channel (nsp.py 293-304)
   and of configure_channel_spike (nsp.py 993-998) *)
ConfigAttrs == {"smpgroup", "autothreshold", "global_lnc"} \cup CheckedAttrs
               \cup SpikeAttrs

(* the values written: every sampling group; a label of 1 byte and one of 17; a
   line-noise rate key LNCRate knows (1) and one it does not (2); no hoop (0),
   hoop 1 of unit 1 (1), a unit id greater than MAX_UNITS (2); a line frequency;
   a filter number or a flag for the others *)
AttrValues(attr) ==
    CASE attr = "smpgroup" -> 0..6
      [] attr = "label" -> {1, 17}
      [] attr = "lnc_rate" -> {1, 2}
      [] attr = "hoops" -> {0, 1, 2}
      [] attr = "global_lnc" -> {60}
      [] attr = "smpfilter" -> {5}
      [] attr \in {"spkfilter", "spkthrlevel"} -> {2}
      [] OTHER -> {0, 1}

(* the frame of configure_channel / configure_channel_spike(chid, attr, g,
   timeout) at its entry *)
ConfigureCall(chid, attr, g, timed) ==
    [phase |-> "start", attr |-> attr, chid |-> chid, g |-> g, timed |-> timed,
     pkt |-> NoPkt, failed |-> FALSE, known |-> chid \in DOMAIN config.channel_infos]

(* nsp.py 960-979: the client calls configure_channel(chid, attr, g, timeout);
   failed is the negated result of the call's last _send_packet, known whether
   the mirror held the channel when the call was made *)
ClientConfigure ==
    /\ pc = "connected"
    /\ hist.ops < MaxOps
    /\ \E attr \in ConfigAttrs, chid \in 1..NChans, timed \in BOOLEAN :
       \E g \in AttrValues(attr) :
         /\ cf' = ConfigureCall(chid, attr, g, timed)
         /\ hist' = [hist EXCEPT !.ops = @ + 1,
                                 !.sent0 = Len(hist.sent),
                                 !.opts0 = IF chid \in DOMAIN config.channel_infos
                                           THEN config.channel_infos[chid].ainpopts
                                           ELSE 0]
    /\ pc' = "configure"
    /\ UNCHANGED <<mirror, registries, handler, stop_event, recv_q, transportv, sp, gc,
                   ret, calls, rcvd, registered>>

(* nsp.py 975, 984-986, 1004-1006, 1021-1023: the end of a call that writes to
   one channel, by return (res = "ok") or by the exception res.  A call made by
   the client gives it the result; a call made by the loop of an operation on
   all channels (the frame holds the loop's frame) returns into the loop, which
   goes on to its next turn, and an exception ends the loop with the call.
   wrote: a request of the call was handed to the transport *)
ConfigureEnd(res, failed, wrote) ==
    IF "loop" \in DOMAIN cf
    THEN LET written == IF wrote THEN Append(cf.loop.written, cf.chid)
                        ELSE cf.loop.written
         IN  IF res = "ok"
             THEN /\ cf' = [cf.loop EXCEPT !.pos = @ + 1, !.written = written]
                  /\ UNCHANGED <<pc, ret>>
             ELSE /\ cf' = [cf.loop EXCEPT !.phase = res, !.written = written]
                  /\ pc' = "connected"
                  /\ ret' = [ret EXCEPT !.configure = res]
    ELSE /\ cf' = [cf EXCEPT !.phase = "done", !.failed = failed]
         /\ pc' = "connected"
         /\ ret' = [ret EXCEPT !.configure = res]

(* nsp.py 606, 641: copy.copy(self._config["channel_infos"][chid]) raises KeyError
   when the mirror has no record of the channel; the call ends there *)
ConfigureKeyError ==
    /\ ConfigureEnd("KeyError", cf.failed, FALSE)
    /\ UNCHANGED sp

(* nsp.py 628-639, 603-613: groups 0, 5 and 6 first toggle the raw-stream flag *)
SmpgroupToggle ==
    /\ cf.phase = "start"
    /\ cf.attr = "smpgroup"
    /\ cf.g \in {0, 5, 6}
    /\ IF cf.chid \in DOMAIN config.channel_infos
       THEN /\ sp' = SendPacketCall(toggle_packet(config.channel_infos[cf.chid],
                                                  refelec_rawstream, cf.g = 6),
                                    configure_event(cf.timed), TRUE)
            /\ cf' = [cf EXCEPT !.phase = "toggle"]
            /\ UNCHANGED <<pc, ret>>
       ELSE ConfigureKeyError
    /\ UNCHANGED <<mirror, registries, handler, stop_event, recv_q, transportv, gc,
                   ghost>>

(* nsp.py 613-614, 633: the toggle's send has returned; on failure refresh *)
SmpgroupAfterToggle ==
    /\ cf.phase = "toggle"
    /\ sp.phase = "ret"
    /\ sp' = NoFrame
    /\ IF sp.res
       THEN /\ cf' = [cf EXCEPT !.phase = "smp"]
            /\ gc' = gc
       ELSE /\ cf' = [cf EXCEPT !.phase = "refresh", !.failed = TRUE]
            /\ gc' = GetConfigCall(TRUE, TRUE)
    /\ UNCHANGED <<mirror, registries, handler, stop_event, recv_q, transportv, pc, ret,
                   ghost>>

(* nsp.py 641-649: build CHANSETSMP from a copy of the mirror's record and send *)
SmpgroupSend ==
    /\ \/ cf.phase = "smp"
       \/ cf.phase = "start" /\ cf.attr = "smpgroup" /\ cf.g \notin {0, 5, 6}
    /\ IF cf.chid \in DOMAIN config.channel_infos
       THEN /\ sp' = SendPacketCall(smpgroup_packet(config.channel_infos[cf.chid], cf.g),
                                    configure_event(cf.timed), TRUE)
            /\ cf' = [cf EXCEPT !.phase = "smp_wait",
                                !.pkt = smpgroup_packet(config.channel_infos[cf.chid],
                                                        cf.g)]
            /\ UNCHANGED <<pc, ret>>
       ELSE ConfigureKeyError
    /\ UNCHANGED <<mirror, registries, handler, stop_event, recv_q, transportv, gc,
                   ghost>>

(* nsp.py 649-650, 975: the send has returned; on success the call returns, on
   failure the configuration is refreshed *)
SmpgroupAfterSend ==
    /\ cf.phase = "smp_wait"
    /\ sp.phase = "ret"
    /\ sp' = NoFrame
    /\ IF sp.res
       THEN /\ ConfigureEnd("ok", cf.failed, TRUE)
            /\ gc' = gc
       ELSE /\ cf' = [cf EXCEPT !.phase = "refresh", !.failed = TRUE]
            /\ gc' = GetConfigCall(TRUE, TRUE)
            /\ UNCHANGED <<pc, ret>>
    /\ UNCHANGED <<mirror, registries, handler, stop_event, recv_q, transportv, ghost>>

(* nsp.py 614-623, 650-658: after the refresh the call raises, RuntimeError in
   both branches of the comparison, KeyError if the record is not in the mirror;
   nsp.py 796-800: _set_lnc_global_config compares with the lncFreq of the
   channel record, which has no such field (AttributeError) *)
SmpgroupRaise ==
    /\ cf.phase = "refresh"
    /\ gc.phase = "ret"
    /\ gc' = NoFrame
    /\ ConfigureEnd(IF cf.chid \notin DOMAIN config.channel_infos THEN "KeyError"
                    ELSE IF cf.attr = "global_lnc" THEN "AttributeError"
                    ELSE "RuntimeError",
                    cf.failed, TRUE)
    /\ UNCHANGED <<mirror, registries, handler, stop_event, recv_q, transportv, sp,
                   ghost>>

(* nsp.py 666-670: the CHANSETAUTOTHRESHOLD packet, built from a copy of the
   mirror's record: THRAUTO is cleared, then set again if attr_value *)
autothreshold_packet(rec, v) ==
    [rec EXCEPT !.type = CHANSETAUTOTHRESHOLD,
                !.spkopts = BitOr(BitClear(@, THRAUTO), IF v # 0 THEN THRAUTO ELSE 0)]

(* nsp.py 663-672: _configure_channel_autothreshold builds the packet and sends *)
AutothresholdSend ==
    /\ cf.phase = "start"
    /\ cf.attr = "autothreshold"
    /\ IF cf.chid \in DOMAIN config.channel_infos
       THEN /\ sp' = SendPacketCall(autothreshold_packet(config.channel_infos[cf.chid],
                                                         cf.g),
                                    configure_event(cf.timed), TRUE)
            /\ cf' = [cf EXCEPT !.phase = "auto_wait"]
            /\ UNCHANGED <<pc, ret>>
       ELSE ConfigureKeyError
    /\ UNCHANGED <<mirror, registries, handler, stop_event, recv_q, transportv, gc,
                   ghost>>

(* nsp.py 672, 975: the result of _send_packet is dropped and the call returns *)
AutothresholdReturn ==
    /\ cf.phase = "auto_wait"
    /\ sp.phase = "ret"
    /\ sp' = NoFrame
    /\ ConfigureEnd("ok", ~sp.res, TRUE)
    /\ UNCHANGED <<mirror, registries, handler, stop_event, recv_q, transportv, gc,
                   ghost>>

(* nsp.py 233-248, LNCRate.GetLNCRate: the rate of a key, 0 for an unknown key *)
GetLNCRate(key) ==
    CASE key = 0 -> 0 [] key = 1 -> 1000 [] key = 10 -> 10000 [] key = 30 -> 30000
      [] key = 60 -> 60000 [] OTHER -> 0

(* nsp.py 719: the size of the buffer create_string_buffer makes for the label *)
LabelSize == 16

(* nsp.py 719, bytes(create_string_buffer(attr_value.encode("utf-8"), 16)): a
   label (given by its length in bytes) that does not fit the buffer raises
   ValueError *)
label_raises(attr, v) == attr = "label" /\ v > LabelSize

(* nsp.py 716-722, 737-741, 757-763, 815-825, 828-830, 847-849, 923-925: the
   packet of a checked write, built from a copy of the mirror's record *)
checked_packet(attr, rec, v) ==
    CASE attr = "smpfilter" -> [rec EXCEPT !.type = CHANSETSMP, !.smpfilter = v]
      [] attr = "label" -> [rec EXCEPT !.type = CHANSETLABEL, !.label = v]
      [] attr = "lnc" -> lnc_packet(rec, v)
      [] attr = "lnc_rate" -> [rec EXCEPT !.type = CHANSETAINP,
                                          !.lncrate = GetLNCRate(v)]
      [] attr = "dc_offset" -> toggle_packet(rec, refelec_offsetcorrect, v # 0)
      [] attr = "spkfilter" -> [rec EXCEPT !.type = CHANSETSPK, !.spkfilter = v]
      [] attr = "spkthrlevel" -> [rec EXCEPT !.type = CHANSETSPKTHR,
                                             !.spkthrlevel = v]

(* nsp.py 716-723 and the functions of the same shape: copy the record (KeyError
   when the mirror has none), build the packet, send it and wait *)
CheckedSend ==
    /\ cf.phase = "start"
    /\ cf.attr \in CheckedAttrs
    /\ IF cf.chid \notin DOMAIN config.channel_infos
       THEN ConfigureKeyError
       ELSE IF label_raises(cf.attr, cf.g)
       THEN /\ ConfigureEnd("ValueError", cf.failed, FALSE)
            /\ UNCHANGED sp
       ELSE /\ sp' = SendPacketCall(checked_packet(cf.attr,
                                                   config.channel_infos[cf.chid], cf.g),
                                    configure_event(cf.timed), TRUE)
            /\ cf' = [cf EXCEPT !.phase = "smp_wait",
                                !.pkt = checked_packet(cf.attr,
                                                       config.channel_infos[cf.chid],
                                                       cf.g)]
            /\ UNCHANGED <<pc, ret>>
    /\ UNCHANGED <<mirror, registries, handler, stop_event, recv_q, transportv, gc,
                   ghost>>

(* nsp.py 781-790, _set_lnc_global_config: the LNCSET packet comes from the
   factory, not from the mirror *)
global_lnc_packet(chid, v) ==
    [time |-> 0, chid |-> CONFIGURATION, type |-> LNCSET, instrument |-> 0,
     lncFreq |-> v, lncRefChan |-> chid, lncGlobalMode |-> 0]

(* nsp.py 778-794: send the LNCSET packet and wait *)
GlobalLncSend ==
    /\ cf.phase = "start"
    /\ cf.attr = "global_lnc"
    /\ sp' = SendPacketCall(global_lnc_packet(cf.chid, cf.g),
                            configure_event(cf.timed), TRUE)
    /\ cf' = [cf EXCEPT !.phase = "smp_wait", !.pkt = global_lnc_packet(cf.chid, cf.g)]
    /\ UNCHANGED <<mirror, registries, handler, stop_event, recv_q, transportv, pc, gc,
                   ret, ghost>>

(* nsp.py 943-952, _configure_channel_enable_spike: EXTRACT is cleared; when the
   channel is enabled it is set again, every sorting flag is cleared and hoop
   sorting set *)
enable_spike_packet(rec, v) ==
    [rec EXCEPT !.type = CHANSETSPK,
                !.spkopts = IF v # 0
                            THEN BitOr(BitClear(BitOr(BitClear(@, EXTRACT), EXTRACT),
                                                ALLSORT), HOOPSORT)
                            ELSE BitClear(@, EXTRACT)]

(* nsp.py 694-712, _configure_channel_hoops: the hoops of the dictionary are
   written into the copy's spkhoops (1: hoop 1 of unit 1 is set) *)
hoops_packet(rec, v) ==
    [rec EXCEPT !.type = CHANSETSPKHPS, !.spkhoops = IF v = 1 THEN 1 ELSE @]

(* nsp.py 699-701: a unit id greater than MAX_UNITS raises IndexError *)
hoops_raises(attr, v) == attr = "hoops" /\ v = 2

spike_packet(attr, rec, v) ==
    IF attr = "enable" THEN enable_spike_packet(rec, v) ELSE hoops_packet(rec, v)

(* nsp.py 954: _configure_channel_enable_spike overwrites its timeout with 0.1
   and always waits on the chaninfo event *)
spike_event(attr, timed) ==
    IF attr = "enable" THEN "chaninfo" ELSE configure_event(timed)

(* nsp.py 694-715, 943-956: configure_channel_spike with enable or hoops: the
   packet is built and sent, the result of _send_packet is dropped *)
SpikeSend ==
    /\ cf.phase = "start"
    /\ cf.attr \in SpikeAttrs
    /\ IF cf.chid \notin DOMAIN config.channel_infos
       THEN ConfigureKeyError
       ELSE IF hoops_raises(cf.attr, cf.g)
       THEN /\ ConfigureEnd("IndexError", cf.failed, FALSE)
            /\ UNCHANGED sp
       ELSE /\ sp' = SendPacketCall(spike_packet(cf.attr, config.channel_infos[cf.chid],
                                                 cf.g),
                                    spike_event(cf.attr, cf.timed), TRUE)
            /\ cf' = [cf EXCEPT !.phase = "auto_wait"]
            /\ UNCHANGED <<pc, ret>>
    /\ UNCHANGED <<mirror, registries, handler, stop_event, recv_q, transportv, gc,
                   ghost>>

(* cbsdk.py get_config / nsp.py 1031: the client calls get_config *)
ClientGetConfig ==
    /\ pc = "connected"
    /\ hist.ops < MaxOps
    /\ \E force \in BOOLEAN, timed \in BOOLEAN : gc' = GetConfigCall(force, timed)
    /\ pc' = "get_config"
    /\ hist' = [hist EXCEPT !.ops = @ + 1]
    /\ UNCHANGED <<mirror, registries, handler, stop_event, recv_q, transportv, sp, cf,
                   ret, calls, rcvd, registered>>

(* the client has the result of get_config *)
ClientGetConfigReturn ==
    /\ pc = "get_config"
    /\ gc.phase = "ret"
    /\ ret' = [ret EXCEPT !.get_config = gc.res]
    /\ gc' = NoFrame
    /\ pc' = "connected"
    /\ UNCHANGED <<mirror, registries, handler, stop_event, recv_q, transportv, sp, cf,
                   ghost>>

(* ----------------------------------------------- runlevel and transport calls *)
(* the runlevels the client asks for (cbsdk.set_runlevel; cbsdk.reset_nsp asks
   HARDRESET) *)
ClientRunlevels == {HARDRESET, RESET, RUNNING, STANDBY}

(* nsp.py 1147-1154: the names set_transport knows *)
TransportNames == {"CHECK", "UDP", "LSL", "USB", "SERIAL", "ALL"}

(* nsp.py 88-94, 1147-1154: the flag of a transport name *)
TransportFlag(name) ==
    CASE name = "CHECK" -> 0 [] name = "UDP" -> 1 [] name = "LSL" -> 4
      [] name = "USB" -> 8 [] name = "SERIAL" -> 15 [] OTHER -> 65535

(* nsp.py 1142-1158: the SYSSETTRANSPORT packet; the factory makes it with
   transport = 0 and header time 0, `|= flag` gives the flag and `&= ~flag`
   leaves 0 *)
transport_packet(name, value) ==
    [type |-> SYSSETTRANSPORT, transport |-> IF value THEN TransportFlag(name) ELSE 0,
     time |-> 0]

(* nsp.py 1105-1127, cbsdk.py 155-166: the client calls set_runlevel(run_level,
   timeout) on a connected device (timeout=None through cbsdk) *)
ClientSetRunlevel ==
    /\ pc = "connected"
    /\ hist.ops < MaxOps
    /\ \E run_level \in ClientRunlevels, timed \in BOOLEAN :
         sp' = SetRunlevelCall(run_level, timed)
    /\ pc' = "set_runlevel"
    /\ hist' = [hist EXCEPT !.ops = @ + 1, !.sent0 = Len(hist.sent)]
    /\ UNCHANGED <<mirror, registries, handler, stop_event, recv_q, transportv, gc, cf,
                   ret, calls, rcvd, registered>>

(* nsp.py 1127-1132, cbsdk.py 155-166: set_runlevel returns NOREPLY when the
   wait failed and NONE otherwise, and the client has that value *)
ClientSetRunlevelReturn ==
    /\ pc = "set_runlevel"
    /\ sp.phase = "ret"
    /\ ret' = [ret EXCEPT !.set_runlevel = SetRunlevelReturn,
                          !.client = ClientResult("set_runlevel", "none",
                                                  set_runlevel_result(sp.res))]
    /\ sp' = NoFrame
    /\ pc' = "connected"
    /\ UNCHANGED <<mirror, registries, handler, stop_event, recv_q, transportv, gc, cf,
                   ghost>>

(* nsp.py 1134-1136: get_runlevel(force_refresh); the refresh is
   set_runlevel(RUNNING, timeout=0.5) *)
ClientGetRunlevel ==
    /\ pc = "connected"
    /\ hist.ops < MaxOps
    /\ \E force_refresh \in BOOLEAN :
         sp' = IF force_refresh THEN SetRunlevelCall(RUNNING, TRUE) ELSE NoFrame
    /\ pc' = "get_runlevel"
    /\ hist' = [hist EXCEPT !.ops = @ + 1, !.sent0 = Len(hist.sent)]
    /\ UNCHANGED <<mirror, registries, handler, stop_event, recv_q, transportv, gc, cf,
                   ret, calls, rcvd, registered>>

(* nsp.py 1136-1137: the result of the refresh is dropped; the call returns the
   runlevel of the mirror *)
ClientGetRunlevelReturn ==
    /\ pc = "get_runlevel"
    /\ sp.phase \in {"ret", "none"}
    /\ ret' = [ret EXCEPT !.set_runlevel = IF sp.phase = "ret" THEN SetRunlevelReturn
                                           ELSE @,
                          !.client = ClientResult("get_runlevel", "none",
                                                  config.runlevel)]
    /\ sp' = NoFrame
    /\ pc' = "connected"
    /\ UNCHANGED <<mirror, registries, handler, stop_event, recv_q, transportv, gc, cf,
                   ghost>>

(* nsp.py 1139-1160: set_transport(transport, value, timeout) builds the packet
   and hands it to _send_packet with the sysrep event.  The SYSINFO packet of
   protocol 4.1 has no transport field: `pkt.transport |= flag` raises
   AttributeError and nothing is sent *)
ClientSetTransport ==
    /\ pc = "connected"
    /\ hist.ops < MaxOps
    /\ \E transport \in TransportNames, value \in BOOLEAN, timed \in BOOLEAN :
         IF dev.proto42
         THEN /\ sp' = SendPacketCall(transport_packet(transport, value), "sysrep",
                                      timed)
              /\ pc' = "set_transport"
              /\ ret' = ret
         ELSE /\ ret' = [ret EXCEPT !.client =
                            ClientResult("set_transport", "AttributeError", 0)]
              /\ UNCHANGED <<sp, pc>>
    /\ hist' = [hist EXCEPT !.ops = @ + 1, !.sent0 = Len(hist.sent)]
    /\ UNCHANGED <<mirror, registries, handler, stop_event, recv_q, transportv, gc, cf,
                   calls, rcvd, registered>>

(* nsp.py 1160-1162: the result of _send_packet is logged; the call returns
   None *)
ClientSetTransportReturn ==
    /\ pc = "set_transport"
    /\ sp.phase = "ret"
    /\ ret' = [ret EXCEPT !.client = ClientResult("set_transport", "none", 0)]
    /\ sp' = NoFrame
    /\ pc' = "connected"
    /\ UNCHANGED <<mirror, registries, handler, stop_event, recv_q, transportv, gc, cf,
                   ghost>>

(* nsp.py 1164-1166: get_transport(force_refresh); the refresh is
   set_transport("CHECK", True, timeout=0.5), which raises on protocol 4.1 *)
ClientGetTransport ==
    /\ pc = "connected"
    /\ hist.ops < MaxOps
    /\ \E force_refresh \in BOOLEAN :
         IF force_refresh /\ ~dev.proto42
         THEN /\ ret' = [ret EXCEPT !.client =
                            ClientResult("get_transport", "AttributeError", 0)]
              /\ UNCHANGED <<sp, pc>>
         ELSE /\ sp' = IF force_refresh
                       THEN SendPacketCall(transport_packet("CHECK", TRUE), "sysrep",
                                           TRUE)
                       ELSE NoFrame
              /\ pc' = "get_transport"
              /\ ret' = ret
    /\ hist' = [hist EXCEPT !.ops = @ + 1, !.sent0 = Len(hist.sent)]
    /\ UNCHANGED <<mirror, registries, handler, stop_event, recv_q, transportv, gc, cf,
                   calls, rcvd, registered>>

(* nsp.py 1167: the call returns the transport of the mirror *)
ClientGetTransportReturn ==
    /\ pc = "get_transport"
    /\ sp.phase \in {"ret", "none"}
    /\ ret' = [ret EXCEPT !.client = ClientResult("get_transport", "none",
                                                  config.transport)]
    /\ sp' = NoFrame
    /\ pc' = "connected"
    /\ UNCHANGED <<mirror, registries, handler, stop_event, recv_q, transportv, gc, cf,
                   ghost>>

(* the modes and speeds the client gives set_nplay_state (nsp.py 114-122) *)
NplayModes == {NPLAY_NONE, NPLAY_PAUSE, NPLAY_SINGLE}

(* nsp.py 1085-1103: set_nplay_state(val, mode, flag, speed) on a connected
   device.  The packet is made from bytes(self._config["nplay"]): while the
   mirror holds no NPLAYREP record that is bytes(None), which raises TypeError,
   and nothing is sent; otherwise the packet goes to _send_packet without an
   event *)
ClientSetNplay ==
    /\ pc = "connected"
    /\ hist.ops < MaxOps
    /\ \E mode \in NplayModes, speed \in {0, 1} :
         IF config.nplay
         THEN /\ sp' = SendPacketCall(nplay_packet(0, mode, speed), "none", TRUE)
              /\ pc' = "set_nplay_state"
              /\ ret' = ret
         ELSE /\ ret' = [ret EXCEPT !.client =
                            ClientResult("set_nplay_state", "TypeError", 0)]
              /\ UNCHANGED <<sp, pc>>
    /\ hist' = [hist EXCEPT !.ops = @ + 1, !.sent0 = Len(hist.sent)]
    /\ UNCHANGED <<mirror, registries, handler, stop_event, recv_q, transportv, gc, cf,
                   calls, rcvd, registered>>

(* nsp.py 1103: the result of _send_packet is dropped; the call returns None *)
ClientSetNplayReturn ==
    /\ pc = "set_nplay_state"
    /\ sp.phase = "ret"
    /\ ret' = [ret EXCEPT !.client = ClientResult("set_nplay_state", "none", 0)]
    /\ sp' = NoFrame
    /\ pc' = "connected"
    /\ UNCHANGED <<mirror, registries, handler, stop_event, recv_q, transportv, gc, cf,
                   ghost>>

(* ------------------------------------------------------------ initial states *)
(* the channel table of the instrument: channel 1 is a front-end channel
   (isolated | ainp), channel 2 an analog input (ainp) *)
DevChan(c, opts) ==
    [chan |-> c,
     chancaps |-> IF c = 1 THEN CAPS_isolated + CAPS_ainp ELSE CAPS_ainp,
     dinpcaps |-> 0, aoutcaps |-> 0,
     ainpopts |-> IF c = 1 THEN opts ELSE 0,
     smpgroup |-> 0, smpfilter |-> 0, spkopts |-> 0,
     lncrate |-> 0, spkfilter |-> 0, spkthrlevel |-> 0, label |-> 0, spkhoops |-> 0]

(* DeviceInterface.__init__ and NSPDevice.__init__ *)
InitMirror ==
    /\ config = [runlevel |-> STARTUP, nplay |-> FALSE, transport |-> TRANSPORT_CHECK,
                 proc_chans |-> 0, instrument |-> -1, sysfreq |-> 0,
                 channel_infos |-> <<>>, channel_types |-> <<>>,
                 group_nchans |-> <<>>]
    /\ events = [e \in EventNames |-> FALSE]

(* the registries with the basic callbacks, the handler thread started *)
InitObjects(npkts, time, rl) ==
    /\ config_callbacks = [t \in ConfigTypes |-> BasicCallbacks(t)]
    /\ group_callbacks = [g \in 1..6 |-> <<>>]
    /\ event_callbacks = [t \in ChannelTypes |-> <<>>]
    /\ pkts_received = npkts
    /\ last_time = time
    /\ last_group_time = -1
    /\ warnings = 0
    /\ hpc = "idle"
    /\ hpkt = NoPkt
    /\ hcbs = <<"none", 0>>
    /\ hidx = 0
    /\ hcls = "none"
    /\ stop_event = FALSE
    /\ recv_q = <<>>
    /\ calls = <<>>
    /\ rcvd = <<>>
    /\ registered = <<>>
    /\ hist = [nreg |-> 0, regerr |-> FALSE, ever |-> {}, stable |-> {}, snaps |-> {},
               last_sys_runlevel |-> rl, running_seen |-> FALSE,
               clear_first |-> TRUE, sent |-> <<>>, startup |-> TRUE,
               first_timeout |-> FALSE, reset_called |-> FALSE,
               rl_check1 |-> 0, rl_check2 |-> 0, nplay_check |-> -1,
               ops |-> 0, sent0 |-> 0, opts0 |-> 0, quiet |-> FALSE,
               reconnects |-> 0,
               gc |-> [done |-> FALSE, force |-> FALSE, sent |-> <<>>, succ |-> FALSE,
                       res |-> "None", complete |-> FALSE],
               snap |-> [taken |-> FALSE, orig |-> <<>>, held |-> <<>>, live |-> {}],
               touched |-> IF npkts > 0 THEN {CONFIGURATION} ELSE {},
               infos_late |-> <<>>, types_late |-> <<>>]

InitDevice == InitMirror /\ InitObjects(0, 1, STARTUP) /\ mk = NoFrame /\ codec = NoFrame

(* packets the handler takes during a connect() to a running instrument: the
   SYSREPRUNLEV and the answer to REQCONFIGALL, 41 packets and five per channel *)
ConnectPkts == 1 + 41 + 5 * NChans


(* the device after a connect() to a running instrument that reported NChans
   channels: the mirror is filled, the transport runs.  p42: the protocol is
   4.2, whose final SYSINFO has brought the instrument's transport; np: the
   instrument is a replayer, whose answer had an NPLAYREP packet more *)
ConnectedDeviceWith(opts, p42, np) ==
    /\ InitObjects(ConnectPkts + (IF np THEN 1 ELSE 0), 2, RUNNING)
    /\ config = [runlevel |-> RUNNING, nplay |-> np,
                 transport |-> IF p42 THEN 1 ELSE TRANSPORT_CHECK,
                 proc_chans |-> NChans, instrument |-> 0, sysfreq |-> 30000,
                 channel_infos |-> [c \in 1..NChans |->
                                      ChanPkt(CHANREP, DevChan(c, opts))],
                 channel_types |-> [c \in 1..NChans |->
                                      get_chantype_from_chaninfo(DevChan(c, opts))],
                 group_nchans |-> [g \in 1..6 |-> 0]]
    /\ events = [e \in EventNames |-> e # "runlevel_standby"]
    /\ send_q = <<>>
    /\ wire = <<>>
    /\ net = <<>>
    /\ io = [recv |-> "running", send |-> "running", closed |-> FALSE, lost |-> FALSE,
             pending |-> 0, done |-> FALSE, queue |-> TRUE]
    /\ dev = [runlevel |-> RUNNING, nplay |-> np, unsolicited |-> 0, drops |-> 0,
              proto42 |-> p42, chans |-> [c \in 1..NChans |-> DevChan(c, opts)]]
    /\ pc = "connected"
    /\ sp = NoFrame
    /\ gc = NoFrame
    /\ cf = NoFrame
    /\ ret = [connect |-> RUNNING, returned |-> TRUE, set_runlevel |-> NoCall,
              get_config |-> "none", configure |-> "none", client |-> NoResult]

(* the same with an instrument that is no replayer *)
ConnectedDevice42(opts, p42) == ConnectedDeviceWith(opts, p42, FALSE)

(* the same on protocol 4.1 *)
ConnectedDevice(opts) == ConnectedDevice42(opts, FALSE)

InitConnected(opts) == ConnectedDevice(opts) /\ mk = NoFrame /\ codec = NoFrame

(* ------------------------------------------------- dispatch specifications *)
(* nsp.py 277-319, 1205: the device object before connect; the instrument is in
   some runlevel, is or is not a replayer, and speaks protocol 4.2 (its SYSINFO
   packets carry the transport field) *)
InitStartup ==
    /\ InitDevice
    /\ send_q = <<>>
    /\ wire = <<>>
    /\ net = <<>>
    /\ io = [recv |-> "off", send |-> "off", closed |-> FALSE, lost |-> FALSE,
             pending |-> 0, done |-> FALSE, queue |-> TRUE]
    /\ \E rl \in {STARTUP, STANDBY, RUNNING}, np \in BOOLEAN :
         dev = [runlevel |-> rl, nplay |-> np, unsolicited |-> 0, drops |-> 0, proto42 |-> TRUE,
                chans |-> [c \in 1..NChans |-> DevChan(c, 0)]]
    /\ pc = "init"
    /\ sp = NoFrame
    /\ gc = NoFrame
    /\ cf = NoFrame
    /\ ret = [connect |-> 0, returned |-> FALSE, set_runlevel |-> NoCall,
              get_config |-> "none", configure |-> "none", client |-> NoResult]

InitDispatch == InitConnected(0)

(* registrations made while no packet has been received yet *)
RegisterQuiet ==
    /\ rcvd = <<>>
    /\ RegisterOn(RegKeys)

(* the handler with a fixed set of registrations *)
NextOrder ==
    \/ RegisterQuiet
    \/ Recv
    \/ HandlerGet
    \/ HandlerCall \/ HandlerDone

SpecOrder == InitDispatch /\ [][NextOrder]_vars

(* the handler with the client registering and unregistering at any time *)
NextDispatch ==
    \/ Register
    \/ Unregister
    \/ RecvEvent
    \/ HandlerGet
    \/ HandlerCall
    \/ HandlerDone

SpecDispatch == InitDispatch /\ [][NextDispatch]_vars

(* the callbacks of registry kind, key in registration order *)
RegisteredOn(kind, key) ==
    LET sel == SelectSeq(registered, LAMBDA r : r[1] = kind /\ r[2] = key)
    IN  [i \in 1..Len(sel) |-> sel[i][3]]

(* the recipients of a packet: config_callbacks[type], group_callbacks[type], or
   event_callbacks[class] followed by event_callbacks[Any] *)
ExpectedFor(pkt) ==
    IF IsConfigChid(pkt.chid) THEN RegisteredOn("config", pkt.type)
    ELSE IF pkt.chid = GROUP THEN RegisteredOn("group", pkt.type)
    ELSE IF ChanTypeOf(pkt.chid) = Any THEN RegisteredOn("event", Any)
    ELSE RegisteredOn("event", ChanTypeOf(pkt.chid)) \o RegisteredOn("event", Any)

(* the callbacks invoked for packet k, in invocation order *)
CallsOf(k) ==
    LET sel == SelectSeq(calls, LAMBDA c : c[2] = k)
    IN  [i \in 1..Len(sel) |-> sel[i][1]]

IsPrefix(s, t) == Len(s) <= Len(t) /\ \A i \in 1..Len(s) : s[i] = t[i]

(* packets the handler has taken since the connect *)
Dispatched == pkts_received - ConnectPkts

(* C1: packets are dispatched one at a time in receive order: the log of callback
   invocations is ordered by packet; for each packet the callbacks invoked are
   exactly the registered callbacks that match it, each once, in registration
   order; the packet in hand has received a prefix of them. *)
C1_DispatchInReceiveOrder ==
    /\ \A i, j \in 1..Len(calls) : i < j => calls[i][2] <= calls[j][2]
    /\ \A k \in 1..Dispatched :
         IF k < Dispatched \/ hpc = "idle"
         THEN CallsOf(k) = ExpectedFor(rcvd[k].pkt)
         ELSE IsPrefix(CallsOf(k), ExpectedFor(rcvd[k].pkt))

(* C2: a callback registered at runtime is invoked for every matching packet the
   handler handles while it is registered, and for no packet that was put on the
   receive queue before the callback was registered. *)
C2_RuntimeRegistration ==
    /\ (hpc = "idle" /\ Dispatched >= 1) =>
          \A r \in hist.stable : <<r[3], Dispatched>> \in Range(calls)
    /\ \A i \in 1..Len(calls) :
          \E r \in rcvd[calls[i][2]].regs :
              r[3] = calls[i][1] /\ Matches(r, rcvd[calls[i][2]].pkt)

(* connect against an instrument that may lose datagrams *)
NextStartup ==
    \/ Connect \/ TransportRun \/ TransportStart \/ SenderPoll
    \/ SendPacketClear \/ SendPacketSend \/ SendPacketWaitSet \/ SendPacketWaitTimeout
    \/ GetConfigClear \/ GetConfigSend \/ GetConfigCheck
    \/ StartupAfterRunning \/ StartupAfterHardReset \/ StartupAfterGetConfig
    \/ StartupAfterReset \/ StartupNplay \/ ConnectReturn \/ ConnectRefreshed
    \/ DisconnectStopIO \/ DisconnectSendQuit \/ DisconnectTestQuit
    \/ DisconnectStopIOError \/ DisconnectStopHandler
    \/ DisconnectJoinIO \/ DisconnectJoinHandler
    \/ Sender \/ Deliver \/ Drop \/ DevBroadcast \/ ConnectionLost \/ ReceiverLost \/ ThreadExit
    \/ HandlerGet \/ HandlerCall \/ HandlerDone
    \/ HandlerEmpty \/ HandlerWaitTimeout \/ HandlerExit

SpecStartup == InitStartup /\ [][NextStartup]_vars

(* ------------------------------------------------------------ startup claims *)
(* the handler runs a device callback on the packet in hand in this step *)
HandledStep == hpc = "dispatch" /\ hidx' = hidx + 1

(* a request as the caller built it: the packet without its header time *)
Request(msg) == [f \in DOMAIN msg \ {"time"} |-> msg[f]]

Requests(seq) == [i \in 1..Len(seq) |-> Request(seq[i])]

RunlevReq(rl) == [type |-> SYSSETRUNLEV, runlevel |-> rl]

(* the requests the startup sequence is to send, given the runlevel the mirror
   showed at its two decisions (0: not reached) and the replayer decision *)
StartupRequests ==
    <<RunlevReq(RUNNING)>>
    \o (IF hist.rl_check1 \notin {0, RUNNING} THEN <<RunlevReq(HARDRESET)>> ELSE <<>>)
    \o <<[type |-> REQCONFIGALL]>>
    \o (IF hist.rl_check2 \notin {0, RUNNING} THEN <<RunlevReq(RESET)>> ELSE <<>>)
    \o (IF hist.nplay_check = 1
        THEN << [type |-> NPLAYSET, mode |-> NPLAY_NONE, val |-> 0, speed |-> 1],
                [type |-> NPLAYSET, mode |-> NPLAY_PAUSE, val |-> 0, speed |-> 1],
                [type |-> NPLAYSET, mode |-> NPLAY_SINGLE, val |-> 0, speed |-> 0] >>
        ELSE <<>>)

(* C4: during connect(startup_sequence=True) the requests reach the send queue in
   the order RUNNING, HARDRESET (only if the mirror was not RUNNING after the first
   reply), REQCONFIGALL (always), RESET (only if the mirror was still not RUNNING),
   and the three NPLAYSET packets (only if an NPlay record was received); the log of
   requests is at every moment a prefix of that list, each request is handed over
   only by the one _send_packet call in progress, and a connect that returns a
   runlevel has sent the whole list. *)
C4_StartupRequestOrder ==
    hist.startup =>
        /\ IsPrefix(Requests(hist.sent), StartupRequests)
        /\ (hist.nplay_check = 1) => config.nplay
        /\ pc \in {"su_reset", "su_nplay1", "su_nplay2", "su_nplay3", "conn_check"}
              => [type |-> REQCONFIGALL] \in Range(Requests(hist.sent))
        /\ pc = "connected" => Requests(hist.sent) = StartupRequests

(* a replayer in STARTUP was taken through all seven requests *)
C4_Witness ==
    /\ hist.startup
    /\ pc = "connected"
    /\ Len(hist.sent) = 7
    /\ hist.sent[2].runlevel = HARDRESET
    /\ hist.sent[7].mode = NPLAY_SINGLE

(* C5: when the wait for the reply to the first SYSSETRUNLEV(RUNNING) times out,
   the startup step returns NOREPLY, no further request is sent, and connect returns
   0 with the transport thread and the handler thread stopped and joined. *)
C5_NoReplyOnFirstRequest ==
    (hist.startup /\ hist.first_timeout) =>
        /\ ret.set_runlevel.err = CBError_NOREPLY
        /\ Requests(hist.sent) = <<RunlevReq(RUNNING)>>
        /\ pc \in {"disc_stop", "disc_quit", "disc_quit_put", "disc_hstop",
                  "disc_join_io", "disc_join_h", "returned"}
        /\ ret.returned =>
              /\ ret.connect = 0
              /\ io.closed /\ io.done
              /\ stop_event /\ hpc = "exited"

(* C6: once the startup sequence has called set_runlevel(RESET), nothing of connect
   after that call runs before the handler has taken a SYSREP or SYSREPRUNLEV packet
   with runlevel RUNNING; while none has been handled the call stays blocked. *)
C6_ResetBlocksUntilRunning ==
    (hist.reset_called /\ ~hist.running_seen) =>
        /\ pc = "su_reset"
        /\ sp.phase = "run"
        /\ ~ret.returned

(* connect returned after a RESET that waited for RUNNING *)
C6_Witness ==
    /\ hist.reset_called
    /\ hist.running_seen
    /\ ret.returned
    /\ ret.connect = RUNNING

(* the edges of the runlevel state machine *)
RunlevelEdges ==
    {<<STARTUP, HARDRESET>>, <<HARDRESET, STANDBY>>, <<STANDBY, RESET>>,
     <<RESET, RUNNING>>, <<RUNNING, STRESSED>>, <<RUNNING, ERROR>>,
     <<RUNNING, SHUTDOWN>>}

(* C7 as stated: the mirror's runlevel changes only along the edges of the runlevel
   state machine. *)
C7_OnlyAlongEdges ==
    [][config'.runlevel # config.runlevel
          => <<config.runlevel, config'.runlevel>> \in RunlevelEdges]_vars

(* C7: the mirror's runlevel changes only when the handler runs _handle_sysrep on a
   SYSREP or SYSREPRUNLEV packet, and then becomes the runlevel that packet
   carries, whatever the previous value was. *)
C7_RunlevelFollowsReports ==
    [][config'.runlevel # config.runlevel
          => /\ HandledStep
             /\ IsSysRunlevelPkt(hpkt)
             /\ config'.runlevel = hpkt.runlevel]_vars

(* the first packet handled took the mirror from STARTUP straight to RUNNING *)
C7_Witness ==
    /\ hist.startup
    /\ pkts_received = 1
    /\ hpc = "idle"
    /\ hpkt.type = SYSREPRUNLEV
    /\ config.runlevel = RUNNING

IsSysPkt(pkt) ==
    IsConfigChid(pkt.chid) /\ pkt.type \in {SYSREP, SYSREPRUNLEV, SYSREPTRANSPORT}

(* C8: the mirror's runlevel is always that of the last SYSREP or SYSREPRUNLEV
   packet handled (STARTUP before any); handling a SYSREPTRANSPORT packet
   leaves runlevel, sysfreq and instrument alone and stores the transport flags;
   handling any of the three types sets sysrep; runlevel_standby and
   runlevel_running become set only by a SYSREP or SYSREPRUNLEV packet with
   runlevel STANDBY, RUNNING. *)
C8_MirrorRunlevel ==
    /\ [](config.runlevel = hist.last_sys_runlevel)
    /\ [][(HandledStep /\ IsSysPkt(hpkt)) => events'["sysrep"]]_vars
    /\ [][(HandledStep /\ IsSysPkt(hpkt) /\ hpkt.type = SYSREPTRANSPORT)
            => /\ config'.runlevel = config.runlevel
               /\ config'.sysfreq = config.sysfreq
               /\ config'.instrument = config.instrument
               /\ config' = [config EXCEPT !.transport = hpkt.transport]]_vars
    /\ [][(~events["runlevel_standby"] /\ events'["runlevel_standby"])
            => HandledStep /\ IsSysRunlevelPkt(hpkt) /\ hpkt.runlevel = STANDBY]_vars
    /\ [][(~events["runlevel_running"] /\ events'["runlevel_running"])
            => HandledStep /\ IsSysRunlevelPkt(hpkt) /\ hpkt.runlevel = RUNNING]_vars

(* after the replies 20, 30, 40, 50 the mirror is RUNNING, and a SYSREPTRANSPORT
   packet handled last left it there *)
C8_Witness ==
    /\ hist.rl_check1 = STARTUP
    /\ hist.reset_called
    /\ hist.running_seen
    /\ hpc = "idle"
    /\ hpkt.type = SYSREPTRANSPORT
    /\ config.transport = 1
    /\ config.runlevel = RUNNING

(* C10: the event of a wait is cleared before the request is handed to the
   transport; _send_packet returns True exactly when no event was given or the
   event is set when the wait ends; set_runlevel waits on runlevel_standby for
   HARDRESET, runlevel_running for RESET and sysrep otherwise, and returns NOREPLY
   exactly when the wait failed. *)
C10_SynchronousWait ==
    /\ [](hist.clear_first)
    /\ []((sp.phase # "none" /\ sp.pkt.type = SYSSETRUNLEV) =>
             sp.ev = CASE sp.pkt.runlevel = HARDRESET -> "runlevel_standby"
                       [] sp.pkt.runlevel = RESET -> "runlevel_running"
                       [] OTHER -> "sysrep")
    /\ []((ret.set_runlevel.err = CBError_NOREPLY) <=> ~ret.set_runlevel.succ)
    /\ [][(sp.phase = "run" /\ sp'.phase = "ret")
            => (sp'.res <=> (sp.ev = "none" \/ events[sp.ev]))]_vars

(* a HARDRESET whose wait on runlevel_standby timed out returned NOREPLY *)
C10_Witness ==
    /\ ret.set_runlevel.level = HARDRESET
    /\ ret.set_runlevel.ev = "runlevel_standby"
    /\ ret.set_runlevel.err = CBError_NOREPLY
    /\ hist.clear_first

(* ------------------------------------------------- configuration specification *)
InitConfig == \E o \in AinpOpts : InitConnected(o)

(* one client call on a connected device, the instrument's replies possibly lost *)
NextConfig ==
    \/ ClientGetConfig \/ ClientGetConfigReturn \/ ClientConfigure
    \/ GetConfigClear \/ GetConfigSend \/ GetConfigCheck \/ GetConfigNoRefresh
    \/ SmpgroupToggle \/ SmpgroupAfterToggle \/ SmpgroupSend \/ SmpgroupAfterSend
    \/ SmpgroupRaise \/ AutothresholdSend \/ AutothresholdReturn
    \/ CheckedSend \/ GlobalLncSend \/ SpikeSend
    \/ SendPacketClear \/ SendPacketSend \/ SendPacketWaitSet \/ SendPacketWaitTimeout
    \/ Sender \/ Deliver \/ Drop
    \/ HandlerGet \/ HandlerCall \/ HandlerDone

SpecConfig == InitConfig /\ [][NextConfig]_vars

(* a connected device, protocol 4.1 or 4.2, the instrument a replayer or not *)
InitClient ==
    /\ \E p42 \in BOOLEAN, np \in BOOLEAN : ConnectedDeviceWith(0, p42, np)
    /\ mk = NoFrame
    /\ codec = NoFrame

(* one runlevel, transport or replay call of the client on a connected device,
   the instrument's replies possibly lost *)
NextClient ==
    \/ ClientSetRunlevel \/ ClientSetRunlevelReturn
    \/ ClientSetNplay \/ ClientSetNplayReturn
    \/ ClientGetRunlevel \/ ClientGetRunlevelReturn
    \/ ClientSetTransport \/ ClientSetTransportReturn
    \/ ClientGetTransport \/ ClientGetTransportReturn
    \/ SendPacketClear \/ SendPacketSend \/ SendPacketWaitSet \/ SendPacketWaitTimeout
    \/ Sender \/ Deliver \/ Drop
    \/ HandlerGet \/ HandlerCall \/ HandlerDone

SpecClient == InitClient /\ [][NextClient]_vars

(* C3: get_config(force_refresh=True) sends REQCONFIGALL and waits on sysrep with
   the caller's timeout; it returns the configuration exactly when, after the
   wait, proc_chans is non-zero and the mirror holds proc_chans channel records,
   whether the wait succeeded or timed out; get_config(force_refresh=False)
   returns the configuration and sends nothing. *)
C3_GetConfigCriterion ==
    /\ (gc.phase = "wait") =>
          /\ Request(sp.pkt) = [type |-> REQCONFIGALL]
          /\ sp.ev = "sysrep"
          /\ sp.timed = gc.timed
    /\ (hist.gc.done /\ hist.gc.force) =>
          /\ Requests(hist.gc.sent) = <<[type |-> REQCONFIGALL]>>
          /\ (hist.gc.res = "config") <=> hist.gc.complete
    /\ (hist.gc.done /\ ~hist.gc.force) =>
          /\ hist.gc.res = "config"
          /\ hist.gc.sent = <<>>

(* the terminal SYSINFO was missed, the wait timed out, and get_config still
   returned the configuration *)
C3_Witness ==
    /\ hist.gc.done
    /\ hist.gc.force
    /\ ~hist.gc.succ
    /\ hist.gc.res = "config"
    /\ ret.get_config = "config"

(* the CHANSET packets the last configure_channel call has handed to the
   transport, in order; the sender thread puts them on the wire in that order *)
IsChanSet(p) == p.type \in {CHANSETAINP, CHANSETSMP}

WireOfCall == SelectSeq(SubSeq(hist.sent, hist.sent0 + 1, Len(hist.sent)), IsChanSet)

(* the requests the last configure_channel call has handed to the transport *)
SentOfCall == SubSeq(hist.sent, hist.sent0 + 1, Len(hist.sent))

(* C9 as stated: every configure_channel(chid, "smpgroup", g) call on a channel
   of the mirror that has ended has put the whole sequence on the wire: the
   CHANSETAINP packet first for g in {0, 5, 6}, and the CHANSETSMP packet last. *)
C9_WholeSequenceAlways ==
    LET w == WireOfCall
        n == IF cf.g \in {0, 5, 6} THEN 2 ELSE 1
    IN  (cf.phase = "done" /\ cf.attr = "smpgroup" /\ cf.known) =>
            /\ Len(w) = n
            /\ w[n].type = CHANSETSMP

(* C9: configure_channel(chid, "smpgroup", g) on a channel of the mirror puts on
   the wire: for g in {0, 5} a CHANSETAINP packet with bit 0x40 of ainpopts
   cleared and then a CHANSETSMP packet; for g = 6 a CHANSETAINP packet with bit
   0x40 set and then a CHANSETSMP packet; for any other g only the CHANSETSMP
   packet.  With timeout 0 the call always sends the whole sequence and returns;
   with timeout > 0 the CHANSETSMP packet follows the CHANSETAINP packet only
   when that write was acknowledged, and a call that did not return normally is
   a timed call with a failed wait that sent REQCONFIGALL, raised RuntimeError
   or KeyError, and either sent the whole sequence or only the CHANSETAINP
   packet.  The CHANSETSMP packet carries
   smpgroup = g and smpfilter 5, 6, 7, 10 for g = 1, 2, 3, 4 and 0 otherwise, and
   no CHANSETSMP packet of the call goes out before its CHANSETAINP packet.  The
   wire carries the packets in the order they were handed to the transport. *)
C9_SmpgroupWireSequence ==
    LET w == WireOfCall
        n == IF cf.g \in {0, 5, 6} THEN 2 ELSE 1
    IN  /\ IsPrefix(wire, hist.sent)
        /\ (send_q = <<>>) => wire = hist.sent
        /\ (cf.phase = "done" /\ cf.attr = "smpgroup" /\ cf.known) =>
              /\ (~cf.timed) => ret.configure = "ok"
              /\ (ret.configure = "ok") =>
                    /\ Len(w) = n
                    /\ w[n].type = CHANSETSMP
              /\ (ret.configure # "ok") =>
                    /\ cf.timed
                    /\ cf.failed
                    /\ ret.configure \in {"RuntimeError", "KeyError"}
                    /\ [type |-> REQCONFIGALL] \in Range(Requests(SentOfCall))
                    /\ \/ Len(w) = n /\ w[n].type = CHANSETSMP
                       \/ n = 2 /\ Len(w) = 1 /\ w[1].type = CHANSETAINP
        /\ (cf.phase # "none" /\ cf.attr = "smpgroup") =>
              \A i \in 1..Len(w) :
                 /\ (w[i].type = CHANSETAINP) =>
                       /\ i = 1
                       /\ cf.g \in {0, 5, 6}
                       /\ w[i].chan = cf.chid
                       /\ BitAnd(w[i].ainpopts, refelec_rawstream)
                             = (IF cf.g = 6 THEN refelec_rawstream ELSE 0)
                 /\ (w[i].type = CHANSETSMP) =>
                       /\ i = n
                       /\ (n = 2) => w[1].type = CHANSETAINP
                       /\ w[i].chan = cf.chid
                       /\ w[i].smpgroup = cf.g
                       /\ w[i].smpfilter = CASE cf.g = 1 -> 5 [] cf.g = 2 -> 6
                                              [] cf.g = 3 -> 7 [] cf.g = 4 -> 10
                                              [] OTHER -> 0

(* a change to group 0 on a channel whose mirror had the raw-stream bit and
   another bit set has returned: the bit was cleared, the other bit kept, and the
   CHANSETSMP packet followed *)
C9_Witness ==
    /\ cf.phase = "done"
    /\ cf.attr = "smpgroup"
    /\ ret.configure = "ok"
    /\ send_q = <<>>
    /\ cf.g = 0
    /\ hist.opts0 = refelec_rawstream + 1
    /\ wire = hist.sent
    /\ Len(WireOfCall) = 2
    /\ WireOfCall[1].ainpopts = 1
    /\ WireOfCall[2].type = CHANSETSMP

(* C11: when a configure_channel call with an attribute of its table and a
   value the attribute takes, on a channel of the mirror, has ended: a write with
   timeout > 0 whose chaninfo wait timed out ended with an exception, after a
   forced configuration refresh (REQCONFIGALL sent by the call); a write with
   timeout 0 ended without one. *)
C11_WriteFailureReported ==
    (cf.phase = "done" /\ cf.known /\ cf.attr \notin SpikeAttrs
       /\ ~label_raises(cf.attr, cf.g)) =>
        /\ (cf.timed /\ cf.failed) =>
              /\ ret.configure \in {"RuntimeError", "KeyError", "AttributeError"}
              /\ [type |-> REQCONFIGALL] \in Range(Requests(SentOfCall))
        /\ (~cf.timed) => (~cf.failed /\ ret.configure = "ok")

(* ---------------------------------------------------- disconnect specification *)
(* a connected device: the client reads the configuration and disconnects, the
   connection may be lost at any time *)
NextDisconnect ==
    \/ ClientGetConfig \/ ClientGetConfigReturn
    \/ GetConfigClear \/ GetConfigSend \/ GetConfigCheck \/ GetConfigNoRefresh
    \/ SendPacketClear \/ SendPacketSend \/ SendPacketTest
    \/ SendPacketWaitSet \/ SendPacketWaitTimeout
    \/ ClientDisconnect \/ DisconnectStopIO \/ DisconnectSendQuit \/ DisconnectTestQuit
    \/ DisconnectStopHandler
    \/ DisconnectJoinIO \/ DisconnectJoinHandler
    \/ ConnLost \/ Sender \/ Deliver \/ Drop \/ ConnectionLost \/ ReceiverLost \/ ThreadExit
    \/ HandlerGet \/ HandlerCall \/ HandlerDone
    \/ HandlerEmpty \/ HandlerWaitTimeout \/ HandlerExit

SpecDisconnect == InitDispatch /\ [][NextDisconnect]_vars

(* C12: disconnect() is never left waiting for ever, and when it has returned the
   receiver, the sender and the transport thread have ended and the handler
   thread has ended. *)
C12_DisconnectTerminates ==
    /\ pc # "disc_blocked"
    /\ (pc = "returned") =>
          /\ io.recv = "exited"
          /\ io.send = "exited"
          /\ io.done
          /\ hpc \in {"exited", "crashed"}

(* ------------------------------------------------ channel-reply specification *)
(* the scalar fields of the CHANINFO layout that _handle_chaninfo and
   get_chantype_from_chaninfo read or assign (nsp.py 259-272, 418-459) *)
ChanFields ==
    {"chancaps", "dinpcaps", "aoutcaps", "ainpopts", "lncrate", "refelecchan",
     "spkopts", "spkfilter", "amplrejpos", "amplrejneg", "smpfilter", "smpgroup",
     "spkhoops", "aoutopts", "scalin", "scalout", "dinpopts", "eopchar", "doutopts",
     "doutcaps", "label", "userflags", "spkthrlevel"}

(* a CHANINFO body: the capability fields as given, every other field v *)
FullChan(c, caps, v) ==
    [f \in ChanFields \cup {"chan"} |->
        CASE f = "chan" -> c
          [] f = "chancaps" -> caps[1]
          [] f = "dinpcaps" -> caps[2]
          [] f = "aoutcaps" -> caps[3]
          [] OTHER -> v]

(* <<chancaps, dinpcaps, aoutcaps>> of the channels an instrument reports: one
   per branch of the classification, and three that match no branch *)
CapsChoices ==
    { <<CAPS_isolated + CAPS_ainp, 0, 0>>, <<CAPS_ainp, 0, 0>>,
      <<CAPS_dinp, 1, 0>>, <<CAPS_dinp, 0, 0>>, <<CAPS_dout, 0, 0>>,
      <<CAPS_aout, 0, AOUT_audio>>, <<CAPS_aout, 0, 0>>, <<CAPS_isolated, 0, 0>>,
      <<0, 0, 0>> }

(* the channel the instrument reported at connect: channel 1 front end, the
   others analog inputs, every option field 0 *)
FullDevChan(c) ==
    FullChan(c, IF c = 1 THEN <<CAPS_isolated + CAPS_ainp, 0, 0>>
                ELSE <<CAPS_ainp, 0, 0>>, 0)

(* channel replies on the network: the full-scope CHANREP with any capabilities,
   every scoped reply, for chan 0 .. NChans + 1 from this instrument and for
   channel 1 from another instrument; the option fields all carry 1 *)
ChanInfoPackets ==
    LET bodies(c) == {<<CHANREP, FullChan(c, caps, 1)>> : caps \in CapsChoices}
                     \cup {<<t, FullChan(c, <<CAPS_ainp, 0, 0>>, 1)>> :
                              t \in ChanInfoTypes \ {CHANREP}}
    IN  {CfgPkt(b[1], b[2]) : b \in UNION {bodies(c) : c \in 0..(NChans + 1)}}
        \cup {[CfgPkt(b[1], b[2]) EXCEPT !.instrument = 1] : b \in bodies(1)}

(* datagram.py 55-61: a channel reply is put on the receive queue *)
RecvChaninfo == RecvFrom(ChanInfoPackets)

(* the device after a connect() to a running instrument, the mirror holding the
   whole CHANINFO record of every channel *)
InitChaninfo ==
    /\ InitObjects(ConnectPkts, 2, RUNNING)
    /\ config = [runlevel |-> RUNNING, nplay |-> FALSE, transport |-> TRANSPORT_CHECK,
                 proc_chans |-> NChans, instrument |-> 0, sysfreq |-> 30000,
                 channel_infos |-> [c \in 1..NChans |->
                                      WithSeq(CfgPkt(CHANREP, FullDevChan(c)), 0)],
                 channel_types |-> [c \in 1..NChans |->
                                      get_chantype_from_chaninfo(FullDevChan(c))],
                 group_nchans |-> [g \in 1..6 |-> 0]]
    /\ events = [e \in EventNames |-> e # "runlevel_standby"]
    /\ send_q = <<>>
    /\ wire = <<>>
    /\ net = <<>>
    /\ io = [recv |-> "running", send |-> "running", closed |-> FALSE, lost |-> FALSE,
             pending |-> 0, done |-> FALSE, queue |-> TRUE]
    /\ dev = [runlevel |-> RUNNING, nplay |-> FALSE, unsolicited |-> 0, drops |-> 0,
              proto42 |-> FALSE, chans |-> [c \in 1..NChans |-> FullDevChan(c)]]
    /\ pc = "connected"
    /\ sp = NoFrame
    /\ gc = NoFrame
    /\ cf = NoFrame
    /\ ret = [connect |-> RUNNING, returned |-> TRUE, set_runlevel |-> NoCall,
              get_config |-> "none", configure |-> "none", client |-> NoResult]
    /\ mk = NoFrame
    /\ codec = NoFrame

NextChaninfo == RecvChaninfo \/ HandlerGet \/ HandlerCall \/ HandlerDone

SpecChaninfo == InitChaninfo /\ [][NextChaninfo]_vars

(* the handler runs _handle_chaninfo on the packet in hand in this step *)
ChaninfoStep == HandledStep /\ CbList(hcbs)[hidx] = "_handle_chaninfo"

(* C13: every chid stored in the mirror lies in 1 .. proc_chans and its record
   came from the mirror's instrument; a channel reply from another instrument or
   with a chid outside 1 .. proc_chans changes neither channel_infos nor
   channel_types. *)
C13_ChidsInRange ==
    /\ [](\A c \in DOMAIN config.channel_infos :
            /\ 1 <= c /\ c <= config.proc_chans
            /\ config.channel_infos[c].instrument = config.instrument)
    /\ [][(ChaninfoStep /\ (hpkt.instrument # config.instrument
                             \/ hpkt.chan < 1 \/ hpkt.chan > config.proc_chans))
            => (config'.channel_infos = config.channel_infos
                /\ config'.channel_types = config.channel_types)]_vars

(* the code's test for a reply it takes (nsp.py 407-409) *)
Accepted(pkt) == pkt.instrument = config.instrument /\ pkt.chan <= config.proc_chans

(* the fields each scoped reply type owns *)
ScopedOwns(type) ==
    CASE type = CHANREPSMP -> {"smpfilter", "smpgroup"}
      [] type = CHANREPAINP -> {"ainpopts", "lncrate", "refelecchan"}
      [] type = CHANREPSPK -> {"spkopts", "spkfilter"}
      [] type = CHANREPAUTOTHRESHOLD -> {"spkopts"}
      [] type = CHANREPREJECTAMPLITUDE -> {"spkopts", "amplrejpos", "amplrejneg"}
      [] type = CHANREPLABEL -> {"label", "userflags"}
      [] type = CHANREPSPKTHR -> {"spkthrlevel"}
      [] type = CHANREPSCALE -> {"scalin", "scalout"}
      [] type = CHANREPDINP -> {"dinpopts", "eopchar"}
      [] type = CHANREPDOUT -> {"doutopts", "doutcaps"}
      [] type = CHANREPAOUT -> {"aoutopts"}
      [] type = CHANREPSPKHPS -> {"spkhoops"}
      [] OTHER -> {}

(* C14: handling an accepted scoped channel reply assigns, in the mirror's record
   of that chid, the fields its type owns from the packet and leaves every other
   field, the channel's class and every other channel as they were; an accepted
   full-scope CHANREP replaces the whole record by the packet and recomputes the
   class, leaving the other channels as they were; a reply that is not accepted
   leaves the whole mirror as it was. *)
C14_ScopedFrameEffect ==
  /\ [][(ChaninfoStep /\ ~Accepted(hpkt)) => config' = config]_vars
  /\ [][(ChaninfoStep /\ Accepted(hpkt)) =>
          IF hpkt.type = CHANREP
          THEN /\ config'.channel_infos[hpkt.chan] = hpkt
               /\ config'.channel_types[hpkt.chan] = get_chantype_from_chaninfo(hpkt)
               /\ \A c \in DOMAIN config.channel_infos \ {hpkt.chan} :
                     /\ config'.channel_infos[c] = config.channel_infos[c]
                     /\ config'.channel_types[c] = config.channel_types[c]
          ELSE /\ DOMAIN config'.channel_infos = DOMAIN config.channel_infos
               /\ config'.channel_types = config.channel_types
               /\ \A c \in DOMAIN config.channel_infos :
                     \A f \in DOMAIN config.channel_infos[c] :
                        config'.channel_infos[c][f] =
                            IF c = hpkt.chan /\ f \in ScopedOwns(hpkt.type)
                            THEN hpkt[f] ELSE config.channel_infos[c][f]]_vars

(* a CHANREPAUTOTHRESHOLD for channel 1 was handled first: spkopts was taken
   from the packet, spkfilter and the other fields, the class and channel 2
   were left alone *)
C14_Witness ==
    /\ hpc = "idle"
    /\ pkts_received = ConnectPkts + 1
    /\ hpkt.type = CHANREPAUTOTHRESHOLD
    /\ hpkt.chan = 1
    /\ hpkt.spkfilter = 1
    /\ config.channel_infos[1].spkopts = 1
    /\ config.channel_infos[1].spkfilter = 0
    /\ config.channel_infos[1].type = CHANREP
    /\ config.channel_types[1] = FrontEnd
    /\ config.channel_infos[2].spkopts = 0

(* the decision rule for the class of a channel, from its capability bits *)
ClassByRule(pkt) ==
    LET isolated == BitAnd(pkt.chancaps, CAPS_isolated) # 0
        ainp == BitAnd(pkt.chancaps, CAPS_ainp) # 0
        dinp == BitAnd(pkt.chancaps, CAPS_dinp) # 0
        dout == BitAnd(pkt.chancaps, CAPS_dout) # 0
        aout == BitAnd(pkt.chancaps, CAPS_aout) # 0
    IN  CASE isolated /\ ainp -> FrontEnd
          [] ainp /\ ~isolated -> AnalogIn
          [] ~ainp /\ dinp /\ BitAnd(pkt.dinpcaps, DINP_serialmask) # 0 -> Serial
          [] ~ainp /\ dinp /\ BitAnd(pkt.dinpcaps, DINP_serialmask) = 0 -> DigitalIn
          [] ~ainp /\ ~dinp /\ dout -> DigitalOut
          [] ~ainp /\ ~dinp /\ ~dout /\ aout /\ BitAnd(pkt.aoutcaps, AOUT_audio) # 0
                -> Audio
          [] OTHER -> Any

(* C15: after an accepted full-scope CHANREP is handled the mirror's class of the
   chid is the class the decision rule gives for the packet's capability bits,
   Any when no rule matches; every stored class is one of the seven classes. *)
C15_ClassByRule ==
    /\ [](\A c \in DOMAIN config.channel_types :
             config.channel_types[c] \in {FrontEnd, AnalogIn, DigitalIn, DigitalOut,
                                          Serial, Audio, Any})
    /\ [][(ChaninfoStep /\ Accepted(hpkt) /\ hpkt.type = CHANREP)
            => config'.channel_types[hpkt.chan] = ClassByRule(hpkt)]_vars


(* --------------------------------------------- the out-of-order check (C16) *)
(* timestamps of the group-6 sample packets the receive context delivers *)
GroupTimes == {1, 2, 999, 1000}

(* group-6 sample packets, and a spike event packet of channel 1 *)
GroupPackets ==
    { [time |-> t, chid |-> GROUP, type |-> 6, instrument |-> 0] : t \in GroupTimes }
    \cup { [time |-> 1000, chid |-> 1, type |-> 1, instrument |-> 0] }

RecvGroup == RecvFrom(GroupPackets)

(* the client registers its group-6 callbacks before the first packet *)
RegisterGroup ==
    /\ rcvd = <<>>
    /\ RegisterOn({<<"group", 6>>})

NextGroup ==
    \/ RegisterGroup
    \/ RecvGroup
    \/ HandlerGet
    \/ HandlerCall \/ HandlerDone

SpecGroup == InitDispatch /\ [][NextGroup]_vars

IsGroup6(p) == p.chid = GROUP /\ p.type = 6

(* the i-th packet is a group-6 packet with a timestamp lower than that of a
   group-6 packet handled before it *)
LateGroup6(i) ==
    /\ IsGroup6(rcvd[i].pkt)
    /\ \E j \in 1..(i - 1) :
         IsGroup6(rcvd[j].pkt) /\ rcvd[j].pkt.time > rcvd[i].pkt.time

(* C16: the handler has logged one out-of-order warning for every handled group-6
   packet whose timestamp is lower than that of an earlier handled group-6
   packet; last_time is never below the timestamp of a handled packet; and every
   handled packet went to its registered callbacks, packets in arrival order. *)
C16_OutOfOrderWarned ==
    /\ warnings = Cardinality({i \in 1..Dispatched : LateGroup6(i)})
    /\ \A i \in 1..Dispatched : rcvd[i].pkt.time <= last_time
    /\ \A i, j \in 1..Len(calls) : i < j => calls[i][2] <= calls[j][2]
    /\ \A k \in 1..Dispatched :
         (k < Dispatched \/ hpc = "idle") => CallsOf(k) = ExpectedFor(rcvd[k].pkt)


(* ------------------------------- registry changes during a dispatch (C17) *)
(* how often callback cb occurs in the sequence s *)
Count(s, cb) == Cardinality({i \in 1..Len(s) : s[i] = cb})

(* C17: the callbacks invoked for a handled packet are the content the registry
   list had at one moment between the packet being taken and its dispatch ending,
   and every callback registered for the packet the whole time was invoked for it
   (once for each registry of the packet that held it the whole time). *)
C17_RegistrySerialized ==
    (hpc = "idle" /\ Dispatched >= 1) =>
        /\ CallsOf(Dispatched) \in hist.snaps
        /\ \A r \in hist.stable :
             Count(CallsOf(Dispatched), r[3])
                >= Cardinality({q \in hist.stable : q[3] = r[3]})


(* ----------------------------------------------- the packet factory (C18) *)
(* arguments of make_packet: channel ids with and without the configuration
   bit; header types with an exact class (16, 49, 64), with a family class only
   (19, 50, 65, 94), with neither (112, 136), and sample group ids (0, 1, 6);
   every channel class, and None, as the hint *)
FactoryChids == {0, 1, CONFIGURATION, CONFIGURATION + 1}
FactoryTypes == {0, 1, 6, 16, 19, 49, 50, 64, 65, 94, 112, 136}
FactoryHints == ChannelTypes \cup {NoChanType}

InitFactory ==
    /\ ConnectedDevice(0)
    /\ \E c \in FactoryChids, t \in FactoryTypes, h \in FactoryHints :
         mk = [phase |-> "args", chid |-> c, type |-> t, chantype |-> h]
    /\ codec = NoFrame

(* factory.py 51-98: the call selects the class *)
MakePacket ==
    /\ mk.phase = "args"
    /\ mk' = [phase |-> "done", chid |-> mk.chid, type |-> mk.type,
              chantype |-> mk.chantype,
              cls |-> make_packet_class(mk.chid, mk.type, mk.chantype)]
    /\ UNCHANGED <<mirror, registries, pkts_received, last_time, last_group_time,
                   warnings, hpc, hpkt, hcbs, hidx, hcls, codec, stop_event,
                   recv_q, transportv, caller, ghost>>

NextFactory == MakePacket

SpecFactory == InitFactory /\ [][NextFactory]_vars

(* the layout the selection rule gives *)
LayoutByRule(chid, type, hint) ==
    IF BitAnd(chid, CONFIGURATION) # 0
    THEN IF type \in RegisteredTypes THEN pktcls_by_type(type)
         ELSE IF BitAnd(type, 240) \in RegisteredTypes
         THEN pktcls_by_type(BitAnd(type, 240))
         ELSE "CBPacketGeneric"
    ELSE IF hint # NoChanType /\ hint \in RegisteredChanTypes
    THEN pktcls_by_chantype(hint)
    ELSE IF type > 0 THEN "CBPacketGroup"
    ELSE "CBPacketGeneric"

(* C18: the class make_packet selects is the one the rule gives: for a
   configuration chid the class of the exact type, else of type & 0xF0, else
   Generic; otherwise the class of a given hint that has one, else SampleGroup
   for type > 0, else Generic. *)
C18_LayoutSelection ==
    mk.phase = "done" => mk.cls = LayoutByRule(mk.chid, mk.type, mk.chantype)


(* ------------------------------------------- packets of header type 0 (C19) *)
(* packets whose chid has no configuration bit: type 0 with chid 0, with the
   front-end channel 1 and with channel 3 (no CHANREP: class Any), and a group-1
   sample packet *)
TypeZeroPackets ==
    { [time |-> 2, chid |-> GROUP, type |-> 0, instrument |-> 0],
      [time |-> 2, chid |-> 1, type |-> 0, instrument |-> 0],
      [time |-> 2, chid |-> 3, type |-> 0, instrument |-> 0],
      [time |-> 2, chid |-> GROUP, type |-> 1, instrument |-> 0] }

RecvTypeZero == RecvFrom(TypeZeroPackets)

(* the client registers group and event callbacks before the first packet;
   group 0 is no key of group_callbacks *)
RegisterTypeZero ==
    /\ rcvd = <<>>
    /\ RegisterOn({<<"group", 0>>, <<"group", 1>>, <<"event", Any>>,
                   <<"event", FrontEnd>>})

NextTypeZero ==
    \/ RegisterTypeZero
    \/ RecvTypeZero
    \/ HandlerGet
    \/ HandlerCall \/ HandlerDone

SpecTypeZero == InitDispatch /\ [][NextTypeZero]_vars

(* the handler takes a packet of type 0 whose chid has no configuration bit *)
TypeZeroStep ==
    /\ hpc = "idle"
    /\ recv_q # <<>>
    /\ pkts_received' = pkts_received + 1
    /\ Head(recv_q).type = 0
    /\ ~IsConfigChid(Head(recv_q).chid)

(* C19 as stated: for every packet with chid & 0x8000 = 0 and type = 0 the
   factory selects the SampleGroup layout and the handler binds the recipients to
   group_callbacks[0], an empty list. *)
C19_TypeZeroSampleGroup ==
    [][TypeZeroStep =>
         LET pkt == Head(recv_q)
         IN  /\ make_packet_class(pkt.chid, pkt.type, ChanTypeOf(pkt.chid))
                  = "CBPacketGroup"
             /\ 0 \in DOMAIN group_callbacks
             /\ resolve_callbacks(pkt) = <<"group", 0>>]_vars

(* C19, amended: a packet with chid & 0x8000 = 0 and type = 0 is never given the
   SampleGroup layout. group_callbacks has the keys 1..6 only: with chid 0 the
   packet has no recipients and is neither decoded nor dispatched. With another
   chid it goes to the event callbacks of the channel's class followed by those
   of Any and, when there are any, is decoded with the Spike layout on a
   front-end channel and with the fallback (Generic) layout on a channel of
   class Any. *)
C19_TypeZeroFallback ==
    [][TypeZeroStep =>
         LET pkt == Head(recv_q)
         IN  /\ hcls' # "CBPacketGroup"
             /\ 0 \notin DOMAIN group_callbacks
             /\ pkt.chid = GROUP =>
                  hcls' = "none" /\ hpc' = "idle" /\ resolve_callbacks(pkt)[1] = "none"
             /\ pkt.chid # GROUP =>
                  /\ resolve_callbacks(pkt) = <<"event", ChanTypeOf(pkt.chid)>>
                  /\ hpc' = "dispatch" =>
                       hcls' = IF ChanTypeOf(pkt.chid) = FrontEnd
                               THEN "CBPacketSpike" ELSE "CBPacketGeneric"]_vars

(* a type-0 packet of chid 0 was handled without a call, and a type-0 packet of
   channel 3 is being dispatched with the Generic layout *)
C19_Witness ==
    /\ Dispatched = 2
    /\ rcvd[1].pkt.chid = GROUP /\ rcvd[1].pkt.type = 0
    /\ calls = <<>>
    /\ hpc = "dispatch"
    /\ hpkt.chid = 3 /\ hpkt.type = 0
    /\ hcls = "CBPacketGeneric"


(* ------------------------------------ encoding and decoding packets (C20) *)
(* little-endian bytes of the unsigned value v in n bytes *)
RECURSIVE ToBytes(_, _)
ToBytes(v, n) == IF n = 0 THEN <<>> ELSE <<v % 256>> \o ToBytes(v \div 256, n - 1)

RECURSIVE FromBytes(_)
FromBytes(b) == IF b = <<>> THEN 0 ELSE b[1] + 256 * FromBytes(Tail(b))

(* two's complement in n bytes *)
Unsigned(v, n) == v % (256 ^ n)
Signed(u, n) == IF 2 * u >= 256 ^ n THEN u - 256 ^ n ELSE u

(* the value ctypes returns for a c_char array field: the bytes before the
   first NUL *)
RECURSIVE CharsValue(_)
CharsValue(b) ==
    IF b = <<>> \/ b[1] = 0 THEN <<>> ELSE <<b[1]>> \o CharsValue(Tail(b))

Fld(name, kind, size) == [name |-> name, kind |-> kind, size |-> size]

HeaderVersions == {"3.11", "4.0", "4.1"}

(* header/v311.py, header/v40.py, header/v41.py: CBPacketHeader._fields_ *)
HeaderLayout(ver) ==
    CASE ver = "3.11" ->
           << Fld("time", "uint", 4), Fld("chid", "uint", 2), Fld("type", "uint", 1),
              Fld("dlen", "uint", 1) >>
      [] ver = "4.0" ->
           << Fld("time", "uint", 8), Fld("chid", "uint", 2), Fld("type", "uint", 1),
              Fld("dlen", "uint", 2), Fld("instrument", "uint", 1),
              Fld("reserved", "raw", 2) >>
      [] ver = "4.1" ->
           << Fld("time", "uint", 8), Fld("chid", "uint", 2), Fld("type", "uint", 2),
              Fld("dlen", "uint", 2), Fld("instrument", "uint", 1),
              Fld("reserved", "uint", 1) >>

VarLenClasses == {"CBPacketSpike", "CBPacketGeneric", "CBPacketGroupInfo"}

(* packets.py 62-69, 137-139, 193-202: the _fields_ after the header *)
BodyLayout(cls) ==
    CASE cls = "CBPacketSpike" ->
           << Fld("_fPattern", "raw", 12), Fld("nPeak", "sint", 2),
              Fld("nValley", "sint", 2) >>
      [] cls = "CBPacketGeneric" -> << >>
      [] cls = "CBPacketGroup" -> << >>     \* packets.py 113-114
      [] cls = "CBPacketGroupInfo" ->
           << Fld("proc", "uint", 4), Fld("group", "uint", 4), Fld("label", "chars", 16),
              Fld("period", "uint", 4), Fld("length", "uint", 4) >>
      [] cls = "CBPacketNPlay" ->       \* v40.py 30-41
           << Fld("ftime", "uint", 8), Fld("stime", "uint", 8), Fld("etime", "uint", 8),
              Fld("val", "uint", 8), Fld("mode", "uint", 2), Fld("flags", "uint", 2),
              Fld("speed", "raw", 4) >>
      [] cls = "CBPacketComment" ->     \* v40.py 85-94
           << Fld("info", "raw", 4), Fld("timeStarted", "uint", 8),
              Fld("rgba", "uint", 4) >>

(* _array._type_: kind and size of one element of the trailing array *)
ElemOf(cls) ==
    CASE cls = "CBPacketSpike" -> Fld("wave", "sint", 2)
      [] cls = "CBPacketGeneric" -> Fld("data", "uint", 4)
      [] cls = "CBPacketGroup" -> Fld("data", "sint", 2)
      [] cls = "CBPacketGroupInfo" -> Fld("chan_list", "uint", 2)
      [] cls = "CBPacketNPlay" -> Fld("fname", "uint", 1)
      [] cls = "CBPacketComment" -> Fld("comment", "uint", 1)

RECURSIVE SizeOf(_)
SizeOf(layout) ==
    IF layout = <<>> THEN 0 ELSE Head(layout).size + SizeOf(Tail(layout))

(* sizeof(cls) *)
ClassSize(cls, ver) == SizeOf(HeaderLayout(ver)) + SizeOf(BodyLayout(cls))

(* the memory of one field holding value v *)
Memory(f, v) ==
    CASE f.kind = "uint" -> ToBytes(v, f.size)
      [] f.kind = "sint" -> ToBytes(Unsigned(v, f.size), f.size)
      [] OTHER -> v

(* the value of a field whose memory is b *)
Value(f, b) ==
    CASE f.kind = "uint" -> FromBytes(b)
      [] f.kind = "sint" -> Signed(FromBytes(b), f.size)
      [] OTHER -> b

(* bytes() of a ctypes structure: its memory *)
RECURSIVE StructBytes(_, _)
StructBytes(layout, rec) ==
    IF layout = <<>> THEN <<>>
    ELSE Memory(Head(layout), rec[Head(layout).name]) \o StructBytes(Tail(layout), rec)

(* abstract.py 65-69: a number is packed with struct.pack in its own format,
   anything else goes through bytes(getattr(self, f)); getattr of a c_char array
   is the bytes before the first NUL *)
RECURSIVE FieldBytes(_, _)
FieldBytes(layout, rec) ==
    IF layout = <<>> THEN <<>>
    ELSE LET f == Head(layout)
             b == IF f.kind = "chars" THEN CharsValue(rec[f.name])
                  ELSE Memory(f, rec[f.name])
         IN  b \o FieldBytes(Tail(layout), rec)

(* bytes(self._array): the memory of the elements, one after the other *)
ArrayBytes(elem, arr) ==
    [i \in 1..(Len(arr) * elem.size) |->
        Memory(elem, arr[((i - 1) \div elem.size) + 1])[((i - 1) % elem.size) + 1]]

(* abstract.py 60-70, CBPacketVarLen.__bytes__ *)
pkt_bytes(p) ==
    StructBytes(HeaderLayout(p.ver), p.header)
      \o FieldBytes(BodyLayout(p.cls), p.body)
      \o ArrayBytes(ElemOf(p.cls), p.array)

(* from_buffer_copy: the fields of a structure read from the bytes at off *)
RECURSIVE Offset(_, _)
Offset(layout, i) == IF i = 1 THEN 0 ELSE layout[i - 1].size + Offset(layout, i - 1)

ParseStruct(layout, buf, off) ==
    [nm \in {layout[i].name : i \in 1..Len(layout)} |->
        LET i == CHOOSE k \in 1..Len(layout) : layout[k].name = nm
            o == off + Offset(layout, i)
        IN  Value(layout[i], SubSeq(buf, o + 1, o + layout[i].size))]

(* abstract.py 19-23, 47-55, CBPacketVarLen(buffer): ValueError from
   from_buffer_copy when the buffer is shorter than the class; the bytes after
   the class become n_bytes // sizeof(element) array elements *)
pkt_decode(cls, ver, buf) ==
    IF Len(buf) < ClassSize(cls, ver)
    THEN [err |-> "ValueError"]
    ELSE LET hs == SizeOf(HeaderLayout(ver))
             cs == ClassSize(cls, ver)
             es == ElemOf(cls).size
             n  == (Len(buf) - cs) \div es
         IN  [err |-> IF (Len(buf) - cs) % es = 0 THEN "none" ELSE "overrun",
              pkt |-> [cls |-> cls, ver |-> ver,
                       header |-> ParseStruct(HeaderLayout(ver), buf, 0),
                       body |-> ParseStruct(BodyLayout(cls), buf, hs),
                       array |-> [k \in 1..n |->
                                    Value(ElemOf(cls),
                                          SubSeq(buf, cs + (k - 1) * es + 1,
                                                 cs + k * es))]]]

(* CBPacketType.GROUPSET, CBPacketType.COMMENTSET, CBPacketType.CHANSET *)
GROUPSET == 176
CHANSET == 192
COMMENTSET == 177

(* default_chid and default_type of the class *)
DefaultChid(cls) ==
    CASE cls = "CBPacketSpike" -> 1
      [] cls = "CBPacketGeneric" -> 0
      [] cls = "CBPacketGroup" -> 0
      [] OTHER -> CONFIGURATION

DefaultType(cls) ==
    CASE cls = "CBPacketGroupInfo" -> GROUPSET
      [] cls = "CBPacketNPlay" -> NPLAYSET
      [] cls = "CBPacketComment" -> COMMENTSET
      [] OTHER -> 0

(* abstract.py 25-33, 86-87: the header of a new packet after its array is set;
   dlen counts the 32-bit words of the body and is stored in the width the
   header gives it *)
NewHeader(cls, ver, n) ==
    LET words == (SizeOf(BodyLayout(cls)) + n * ElemOf(cls).size) \div 4
        dl    == CHOOSE i \in 1..Len(HeaderLayout(ver)) : HeaderLayout(ver)[i].name = "dlen"
        base  == [time |-> 0, chid |-> DefaultChid(cls), type |-> DefaultType(cls),
                  dlen |-> Unsigned(words, HeaderLayout(ver)[dl].size)]
    IN  CASE ver = "3.11" -> base
          [] ver = "4.0" -> [nm \in {"time", "chid", "type", "dlen", "instrument", "reserved"}
                               |-> IF nm = "instrument" THEN 0
                                   ELSE IF nm = "reserved" THEN <<0, 0>> ELSE base[nm]]
          [] ver = "4.1" -> [nm \in {"time", "chid", "type", "dlen", "instrument", "reserved"}
                               |-> IF nm = "instrument" \/ nm = "reserved" THEN 0
                                   ELSE base[nm]]

(* label memories: empty, "abc" padded with NULs, sixteen characters *)
Labels ==
    { [i \in 1..16 |-> 0],
      [i \in 1..16 |-> IF i <= 3 THEN 96 + i ELSE 0],
      [i \in 1..16 |-> 120] }

(* values of the fixed fields a client sets *)
Bodies(cls) ==
    CASE cls = "CBPacketSpike" ->
           { [_fPattern |-> <<0, 0, 128, 63, 0, 0, 0, 64, 0, 0, 64, 64>>,
              nPeak |-> pk, nValley |-> 2] : pk \in {-3, 1} }
      [] cls = "CBPacketGeneric" -> { <<>> }
      [] cls = "CBPacketGroup" -> { <<>> }
      [] cls = "CBPacketGroupInfo" ->
           { [proc |-> 1, group |-> 2, label |-> l, period |-> 30, length |-> 2]
               : l \in Labels }
      [] cls = "CBPacketNPlay" ->
           { [ftime |-> 0, stime |-> 0, etime |-> 0, val |-> 0, mode |-> md,
              flags |-> 0, speed |-> <<0, 0, 128, 63>>] : md \in {NPLAY_NONE, NPLAY_PAUSE} }
      [] cls = "CBPacketComment" ->
           { [info |-> <<0, 0, 0, 0>>, timeStarted |-> ts, rgba |-> 255] : ts \in {0, 2} }

(* values of the array elements *)
ElemValues(cls) ==
    CASE cls = "CBPacketSpike" -> {-2, 513}
      [] cls = "CBPacketGeneric" -> {1, 16909060}
      [] cls = "CBPacketGroupInfo" -> {1, 65535}
      [] OTHER -> {97, 98}

Arrays(cls) == UNION {[1..k -> ElemValues(cls)] : k \in 0..MaxElems}

(* a packet object of a variable-length class, built by the constructor and
   the setters *)
InitCodec ==
    /\ ConnectedDevice(0)
    /\ mk = NoFrame
    /\ \E cls \in VarLenClasses, ver \in HeaderVersions :
         \E b \in Bodies(cls), a \in Arrays(cls) :
           codec = [phase |-> "new",
                    pkt |-> [cls |-> cls, ver |-> ver,
                             header |-> NewHeader(cls, ver, Len(a)),
                             body |-> b, array |-> a]]

(* bytes(pkt) *)
Encode ==
    /\ codec.phase = "new"
    /\ codec' = [phase |-> "encoded", pkt |-> codec.pkt, bytes |-> pkt_bytes(codec.pkt)]
    /\ UNCHANGED <<mirror, registries, pkts_received, last_time, last_group_time,
                   warnings, hpc, hpkt, hcbs, hidx, hcls, mk, stop_event, recv_q,
                   transportv, caller, ghost>>

(* cls(bytes): memmove past the end of the array when the bytes after the class
   are not a whole number of elements is undefined; the object is then either
   built from the whole elements or the process has failed *)
Decode ==
    /\ codec.phase = "encoded"
    /\ LET d == pkt_decode(codec.pkt.cls, codec.pkt.ver, codec.bytes)
       IN  \E o \in (IF d.err = "overrun"
                     THEN {d, [err |-> "crash"]} ELSE {d}) :
             codec' = [phase |-> "decoded", pkt |-> codec.pkt,
                       bytes |-> codec.bytes, out |-> o]
    /\ UNCHANGED <<mirror, registries, pkts_received, last_time, last_group_time,
                   warnings, hpc, hpkt, hcbs, hidx, hcls, mk, stop_event, recv_q,
                   transportv, caller, ghost>>

NextCodec == Encode \/ Decode

SpecCodec == InitCodec /\ [][NextCodec]_vars

(* C20: the object built from the bytes of a packet has the packet's header,
   fixed fields and trailing array, for every array length up to the bound and
   every header version. *)
C20_RoundTrip ==
    codec.phase = "decoded" =>
        /\ codec.out.err = "none"
        /\ codec.out.pkt = codec.pkt


(* --------------------------------- building and sending packets (C21) *)
(* classes the client builds: variable-length classes of protocol 4.x *)
BuiltClasses == {"CBPacketSpike", "CBPacketGeneric", "CBPacketComment", "CBPacketNPlay"}

(* v40.py is imported for protocol 4.0 and later (packets.py 19-22) *)
BuiltVersions(cls) ==
    IF cls \in {"CBPacketComment", "CBPacketNPlay"} THEN {"4.0", "4.1"}
    ELSE HeaderVersions

(* abstract.py 83-87, _update_dlen: the body's 32-bit words, rounded down *)
update_dlen(p) ==
    LET words == (SizeOf(BodyLayout(p.cls)) + Len(p.array) * ElemOf(p.cls).size) \div 4
        dl    == CHOOSE i \in 1..Len(HeaderLayout(p.ver)) :
                    HeaderLayout(p.ver)[i].name = "dlen"
    IN  [p EXCEPT !.header.dlen = Unsigned(words, HeaderLayout(p.ver)[dl].size)]

(* the setter of the trailing array calls _update_dlen: data (abstract.py 95-102,
   packets.py 157-163) and comment (v40.py 114-127) do, fname (v40.py 67-71)
   does not *)
SetterUpdatesDlen(cls) == cls # "CBPacketNPlay"

(* values assigned to the trailing array; a character array may fill a whole
   32-bit word *)
BuiltArrays(cls) ==
    Arrays(cls) \cup (IF ElemOf(cls).size = 1 THEN {<<97, 98, 99, 100>>} ELSE {})

(* cls(): abstract.py 25-33 *)
InitBuild ==
    /\ ConnectedDevice(0)
    /\ mk = NoFrame
    /\ \E cls \in BuiltClasses :
         \E ver \in BuiltVersions(cls), b \in Bodies(cls) :
           codec = [phase |-> "new",
                    pkt |-> [cls |-> cls, ver |-> ver, header |-> NewHeader(cls, ver, 0),
                             body |-> b, array |-> <<>>]]

(* bytes of a character in the buffer ctypes passes for a str argument: the
   wide character, little-endian (sizeof(c_wchar) on Linux and macOS) *)
WCharSize == 4

(* the buffer of a str: its characters as wide characters *)
WCharBytes(a) ==
    [i \in 1..(Len(a) * WCharSize) |->
        LET c == a[((i - 1) \div WCharSize) + 1]
            k == (i - 1) % WCharSize
        IN  (c \div (256 ^ k)) % 256]

(* what the client assigns: a str or a bytes object for comment, a str for
   fname (it is encoded), a sequence of numbers for data and wave *)
ArrayInputKinds(cls) ==
    CASE cls = "CBPacketComment" -> {"str", "bytes"}
      [] cls = "CBPacketNPlay" -> {"str"}
      [] OTHER -> {"numbers"}

(* v40.py 125-126, the comment setter: an array of len(incomment) bytes is
   filled by memmove(self._array, incomment, len(incomment)): from a str that
   copies the first len(incomment) bytes of its wide-character buffer, from a
   bytes object its bytes; v40.py 70-71, the fname setter, stores the UTF-8
   encoding (of ASCII characters, their codes); the data and wave setters store
   the numbers *)
ArrayAssigned(cls, kind, a) ==
    IF cls = "CBPacketComment" /\ kind = "str"
    THEN SubSeq(WCharBytes(a), 1, Len(a))
    ELSE a

(* pkt.data = a, pkt.wave = a, pkt.comment = a, pkt.fname = a *)
SetArray ==
    /\ codec.phase \in {"new", "set"}
    /\ \E a \in BuiltArrays(codec.pkt.cls), kind \in ArrayInputKinds(codec.pkt.cls) :
         LET q == [codec.pkt EXCEPT !.array = ArrayAssigned(codec.pkt.cls, kind, a)]
         IN  codec' = [phase |-> "set", given |-> a, kind |-> kind,
                       pkt |-> IF SetterUpdatesDlen(q.cls) THEN update_dlen(q) ELSE q]
    /\ UNCHANGED <<mirror, registries, pkts_received, last_time, last_group_time,
                   warnings, hpc, hpkt, hcbs, hidx, hcls, mk, stop_event, recv_q,
                   transportv, caller, ghost>>

(* the message of a built packet on the send queue: its bytes, and the header
   type the instrument reads from them *)
BuiltMsg(q, b) == [type |-> q.header.type, bytes |-> b]

(* nsp.py 1281-1305, _send_packet(pkt) without an event: the time is filled in,
   the bytes are cut to a multiple of 4 and handed to the transport (line 1299),
   nothing is cleared and nothing is waited for *)
SendBuilt ==
    /\ codec.phase \in {"new", "set"}
    /\ LET q == [codec.pkt EXCEPT !.header.time = IF @ = 0 THEN last_time ELSE @]
           b == pkt_bytes(q)
           cut == SubSeq(b, 1, Len(b) - (Len(b) % 4))
       IN  /\ codec' = [phase |-> "sent", pkt |-> q, bytes |-> cut]
           /\ send_q' = io_send(BuiltMsg(q, cut))
    /\ UNCHANGED <<mirror, registries, pkts_received, last_time, last_group_time,
                   warnings, hpc, hpkt, hcbs, hidx, hcls, mk, stop_event, recv_q,
                   wire, net, io, dev, caller, ghost>>

NextBuild == SetArray \/ SendBuilt \/ Sender

SpecBuild == InitBuild /\ [][NextBuild]_vars

(* C21: a packet built locally has dlen = (fixed body bytes + array bytes) \div 4
   after construction and after every assignment of its array, and the bytes
   handed to the transport are a multiple of 4 long and header_size + 4 * dlen. *)
C21_DlenAndLength ==
    LET p == codec.pkt
    IN  /\ p.header.dlen =
             (SizeOf(BodyLayout(p.cls)) + Len(p.array) * ElemOf(p.cls).size) \div 4
        /\ codec.phase = "sent" =>
             /\ Len(codec.bytes) % 4 = 0
             /\ Len(codec.bytes) = SizeOf(HeaderLayout(p.ver)) + 4 * p.header.dlen


(* ------------------------------------------- writers of the mirror (C22) *)
(* a step of the caller context: connect, disconnect, a client call or the
   _send_packet call one of them is in *)
CallerStep == pc' # pc \/ sp' # sp \/ gc' # gc \/ cf' # cf

(* a step of the handler context running a callback of the packet it took *)
HandlerStep == hpc = "dispatch" /\ ~CallerStep

(* C22 as stated: the mirror is written only by the handler context; no
   operation of the caller context (get_config, configure_channel, set_runlevel,
   connect) writes any mirror field. *)
C22_CallerWritesNothing == [][CallerStep => config' = config]_vars

(* C22: every write of the mirror is a step of the handler context, except that
   a forced get_config sets proc_chans to 0 and channel_infos to the empty table
   on the caller context before it sends REQCONFIGALL, and that
   configure_channel_by_packet, given a record object of the mirror, sets that
   record's header type to CHANSET and a zero header time to last_time; each of
   the two steps leaves every other mirror field as it was. *)
C22_CallerWritesOnlyCleared ==
    [][config' # config =>
         \/ HandlerStep
         \/ /\ gc.phase = "start" /\ gc.force
            /\ config' = [config EXCEPT !.proc_chans = 0, !.channel_infos = <<>>]
         \/ /\ pc = "connected" /\ pc' = "by_packet"
            /\ config' = [config EXCEPT
                             !.channel_infos[cf'.chid].type = CHANSET,
                             !.channel_infos[cf'.chid].time =
                                 IF @ = 0 THEN last_time ELSE @]]_vars

(* after connect() with the startup sequence filled the mirror, the client
   called get_config(force_refresh=True): the caller has emptied the two fields
   and not yet sent its request, and the rest of the mirror is as connect()
   left it *)
C22_Witness ==
    /\ hist.startup
    /\ pc = "get_config"
    /\ gc.phase = "send"
    /\ config.proc_chans = 0
    /\ config.channel_infos = <<>>
    /\ config.runlevel = RUNNING
    /\ config.instrument = 0
    /\ DOMAIN config.channel_types = 1..NChans


(* ----------------------------------------- snapshots of the mirror (C23) *)
(* channel replies for the channels of the mirror: the full-scope CHANREP and
   every scoped reply, the option fields all carrying 1 *)
SnapshotPackets ==
    {CfgPkt(t, FullChan(c, <<CAPS_ainp, 0, 0>>, 1)) : t \in ChanInfoTypes, c \in 1..NChans}

RecvSnapshot == RecvFrom(SnapshotPackets)

(* nsp.py 1037, 1083: get_config(force_refresh=False) returns self.config.copy();
   the client keeps the channel records of the returned table *)
TakeSnapshot ==
    /\ pc = "connected"
    /\ ~hist.snap.taken
    /\ hist' = [hist EXCEPT !.snap = [taken |-> TRUE, orig |-> config.channel_infos,
                                      held |-> config.channel_infos,
                                      live |-> DOMAIN config.channel_infos]]
    /\ ret' = [ret EXCEPT !.get_config = "config"]
    /\ UNCHANGED <<mirror, registries, handler, stop_event, recv_q, transportv,
                   pc, sp, gc, cf, calls, rcvd, registered>>

NextSnapshot == RecvSnapshot \/ TakeSnapshot \/ HandlerGet \/ HandlerCall \/ HandlerDone

SpecSnapshot == InitChaninfo /\ [][NextSnapshot]_vars

(* C23: a channel record obtained from a snapshot returned by get_config keeps
   the field values it had when the snapshot was taken, whatever scoped or full
   channel replies the handler processes afterwards. *)
C23_SnapshotRecordsKeep ==
    hist.snap.taken =>
        \A c \in DOMAIN hist.snap.orig :
            \A f \in ChanFields : hist.snap.held[c][f] = hist.snap.orig[c][f]


(* ------------------------------------------- slicing of datagrams (C24) *)
(* datagram.py 74-88, _process_datagram: while a header is left, unpack it and
   split off header_size + 4 * dlen bytes; a slice past the end of the data is
   the bytes there are *)
RECURSIVE process_datagram_dlen_bytes(_, _)
process_datagram_dlen_bytes(ver, data) ==
    LET hs == SizeOf(HeaderLayout(ver))
    IN  IF Len(data) < hs THEN <<>>
        ELSE LET h == ParseStruct(HeaderLayout(ver), data, 0)
                 n == hs + h.dlen
                 m == IF n < Len(data) THEN n ELSE Len(data)
             IN  <<[time |-> h.time, chid |-> h.chid, type |-> h.type, dlen |-> h.dlen,
                    data |-> SubSeq(data, 1, m)]>>
                 \o process_datagram_dlen_bytes(ver, SubSeq(data, m + 1, Len(data)))

RECURSIVE process_datagram(_, _)
process_datagram(ver, data) ==
    LET hs == SizeOf(HeaderLayout(ver))
    IN  IF Len(data) < hs THEN <<>>
        ELSE LET h == ParseStruct(HeaderLayout(ver), data, 0)
                 n == hs + h.dlen * 4
                 m == IF n < Len(data) THEN n ELSE Len(data)
             IN  <<[time |-> h.time, chid |-> h.chid, type |-> h.type, dlen |-> h.dlen,
                    data |-> SubSeq(data, 1, m)]>>
                 \o process_datagram(ver, SubSeq(data, m + 1, Len(data)))

(* packets as the instrument sends them: a header and dlen 32-bit words *)
WirePackets(ver) ==
    { pkt_bytes([cls |-> "CBPacketGeneric", ver |-> ver,
                 header |-> [NewHeader("CBPacketGeneric", ver, n) EXCEPT !.time = 2],
                 body |-> CHOOSE b \in Bodies("CBPacketGeneric") : TRUE,
                 array |-> [k \in 1..n |-> k]]) : n \in 0..2 }

(* datagrams on the socket: one or two packets, or one packet and two without a
   body (dlen = 0), whole or with up to MaxCut bytes missing at the end *)
Datagrams(ver) ==
    LET empty == CHOOSE p \in WirePackets(ver) :
                     \A q \in WirePackets(ver) : Len(p) <= Len(q)
        whole == WirePackets(ver)
                 \cup {a \o b : a \in WirePackets(ver), b \in WirePackets(ver)}
                 \cup {a \o empty \o empty : a \in WirePackets(ver)}
    IN  { SubSeq(d, 1, Len(d) - k) : d \in whole, k \in 0..MaxCut }

(* the transport runs with the header of one protocol version *)
InitDatagram ==
    /\ InitMirror
    /\ InitObjects(0, 1, STARTUP)
    /\ mk = NoFrame
    /\ codec = NoFrame
    /\ send_q = <<>>
    /\ wire = <<>>
    /\ net = <<>>
    /\ io = [recv |-> "running", send |-> "running", closed |-> FALSE, lost |-> FALSE,
             pending |-> 0, done |-> FALSE, queue |-> TRUE, putting |-> <<>>]
    /\ \E ver \in HeaderVersions : dev = [proto |-> ver, datagrams |-> 0]
    /\ pc = "connected"
    /\ sp = NoFrame
    /\ gc = NoFrame
    /\ cf = NoFrame
    /\ ret = [connect |-> RUNNING, returned |-> TRUE, set_runlevel |-> NoCall,
              get_config |-> "none", configure |-> "none", client |-> NoResult]

(* a datagram reaches the socket *)
DatagramArrives ==
    /\ dev.datagrams < MaxDatagrams
    /\ \E d \in Datagrams(dev.proto) :
         /\ Len(d) > 0
         /\ net' = Append(net, d)
    /\ dev' = [dev EXCEPT !.datagrams = @ + 1]
    /\ UNCHANGED <<mirror, registries, handler, stop_event, recv_q, send_q, wire, io,
                   caller, calls, registered, hist, rcvd>>

(* datagram.py 55-56, datagram_received: the loop hands the next datagram to the
   protocol, which slices it into tuples (io.putting: the tuples its for-loop has
   not put yet); one datagram is handled at a time *)
DatagramReceived ==
    /\ net # <<>>
    /\ io.putting = <<>>
    /\ LET tuples == process_datagram(dev.proto, Head(net))
       IN  /\ io' = [io EXCEPT !.putting = tuples]
           /\ rcvd' = Append(rcvd, [datagram |-> Head(net), tuples |-> tuples])
    /\ net' = Tail(net)
    /\ UNCHANGED <<mirror, registries, handler, stop_event, recv_q, send_q, wire, dev,
                   caller, calls, registered, hist>>

(* datagram.py 57-61: one turn of the for-loop puts one tuple on the receive
   queue; the handler thread takes entries between two puts *)
DatagramPut ==
    /\ io.putting # <<>>
    /\ recv_q' = Append(recv_q, Head(io.putting))
    /\ io' = [io EXCEPT !.putting = Tail(@)]
    /\ UNCHANGED <<mirror, registries, handler, stop_event, send_q, wire, net, dev,
                   caller, ghost>>

NextDatagram == DatagramArrives \/ DatagramReceived \/ DatagramPut \/ HandlerGet

SpecDatagram == InitDatagram /\ [][NextDatagram]_vars

(* C24: a datagram containing a packet whose header declares more body bytes
   (4 * dlen) than remain in the datagram is dropped: no packet with a body
   shorter than its header declares is put on the receive queue, and the
   receiver continues with the next datagram. *)
C24_TruncatedDropped ==
    \A i \in 1..Len(recv_q) :
        Len(recv_q[i].data) = SizeOf(HeaderLayout(dev.proto)) + 4 * recv_q[i].dlen


(* ------------------------------------- sending on a stopped transport (C25) *)
(* a connected device whose connection may be lost, the client calling
   get_config; the instrument may have broadcast a SYSREPTRANSPORT before *)
NextStopped ==
    \/ ClientGetConfig \/ ClientGetConfigReturn
    \/ GetConfigClear \/ GetConfigSend \/ GetConfigCheck \/ GetConfigNoRefresh
    \/ SendPacketClear \/ SendPacketSend \/ SendPacketTest
    \/ SendPacketWaitSet \/ SendPacketWaitTimeout
    \/ ConnLost \/ Sender \/ Deliver \/ Drop \/ ConnectionLost \/ ReceiverLost \/ ThreadExit
    \/ DevBroadcast
    \/ HandlerGet \/ HandlerCall \/ HandlerDone

SpecStopped == InitDispatch /\ [][NextStopped]_vars

(* the step of _send_packet in which send() finds no send queue *)
DroppedSend == SpStep = "send" /\ sp'.phase # "blocked" /\ sp'.dropped /\ sp' # sp

(* the call has returned, its send was dropped, and the caller had passed an
   event and a finite timeout *)
DroppedTimedCall == sp.phase = "ret" /\ sp.dropped /\ sp.ev # "none" /\ sp.timed

(* C25 as stated: a send on a stopped transport transmits nothing and does not
   raise, and a caller that passed an event and a finite timeout gets a failed
   wait (False). *)
C25_DroppedSendFails ==
    /\ [][DroppedSend => (send_q' = send_q /\ wire' = wire)]_vars
    /\ [](DroppedTimedCall => sp.res = FALSE)

(* the step of _send_packet in which send() is entered with the send queue gone:
   the transport thread has left run() and the caller had not tested the queue
   before *)
SendOnStopped == SpStep = "send" /\ io.done /\ ~sp.tested /\ sp' # sp

(* C25: a send on a stopped transport transmits nothing and the call goes on to
   its wait; the wait of a caller that passed an event and a finite timeout
   fails (False) when the handler has processed no packet since event.clear(),
   and succeeds only when the handler set the event meanwhile, from a packet
   received before the transport stopped.  Every send entered with the send
   queue gone is dropped in this way; a call raises only when send() had found
   the queue set and the transport thread cleared it before the put. *)
C25_DroppedSendReturns ==
    /\ [][DroppedSend => (send_q' = send_q /\ wire' = wire /\ sp'.phase = "run")]_vars
    /\ [][SendOnStopped => DroppedSend]_vars
    /\ [](DroppedTimedCall =>
            /\ hist.quiet => sp.res = FALSE
            /\ sp.res = TRUE => ~hist.quiet)
    /\ [](sp.phase = "raised" => (sp.tested /\ io.done /\ ~sp.dropped))

(* the transport thread has left run(), get_config's REQCONFIGALL was dropped and
   its wait on sysrep has timed out *)
C25_Witness ==
    /\ DroppedTimedCall
    /\ sp.ev = "sysrep"
    /\ sp.res = FALSE
    /\ io.done
    /\ send_q = <<>>
    /\ wire = <<>>


(* ------------------------------------- a refresh that stays incomplete (C26) *)
(* a step of get_config or of the _send_packet call it makes *)
GetConfigStep == pc = "get_config" /\ (gc' # gc \/ sp' # sp)

(* get_config counts the channel records after its wait (nsp.py 1074-1080) *)
GetConfigCounts == gc.phase = "wait" /\ gc' # gc

(* C26: a forced get_config that ends with fewer channel records than proc_chans
   returns None, and the steps of get_config change, of the mirror, only
   proc_chans and channel_infos: runlevel, transport, nplay, sysfreq, instrument,
   channel_types, the callback registries and the handler's counters are left as
   they were. *)
C26_IncompleteRefreshFrame ==
    /\ [][(GetConfigCounts /\ gc.force
           /\ Cardinality(DOMAIN config.channel_infos) < config.proc_chans)
            => gc'.res = "None"]_vars
    /\ [][GetConfigStep =>
            /\ config' = [config EXCEPT !.proc_chans = config'.proc_chans,
                                        !.channel_infos = config'.channel_infos]
            /\ UNCHANGED registries
            /\ UNCHANGED <<pkts_received, last_time>>]_vars

(* the instrument reported NChans channels, one CHANREP was lost, and the forced
   get_config has returned None with the rest of the mirror in place *)
C26_Witness ==
    /\ hist.gc.done
    /\ hist.gc.force
    /\ ret.get_config = "None"
    /\ config.proc_chans = NChans
    /\ Cardinality(DOMAIN config.channel_infos) < NChans
    /\ DOMAIN config.channel_types = 1..NChans
    /\ config.runlevel = RUNNING
    /\ config.instrument = 0


(* ----------------------------------- operations on all channels (C27) *)
RECURSIVE Ascending(_)
Ascending(S) ==
    IF S = {} THEN <<>>
    ELSE LET lo == CHOOSE x \in S : \A y \in S : x <= y
         IN  <<lo>> \o Ascending(S \ {lo})

(* the keys of the table an operation iterates: channel_infos for
   configure_all_channels and configure_all_channels_spike (nsp.py 984, 1004),
   channel_types for configure_all_channels_disable (nsp.py 1021) *)
TableKeys(op) ==
    IF op = "disable" THEN DOMAIN config.channel_types \cup hist.touched
    ELSE DOMAIN config.channel_infos

(* the keys of a table in the order a dict iterates them, the order of
   insertion: first the keys the table held when the device was connected (the
   key of the first configuration packet, then the channels in the order of the
   instrument's answer to REQCONFIGALL), then the keys inserted since *)
InsertionOrder(keys, late) ==
    LET first == keys \ Range(late)
    IN  (IF CONFIGURATION \in first THEN <<CONFIGURATION>> ELSE <<>>)
        \o Ascending(first \ {CONFIGURATION}) \o late

KeysInOrder(op) ==
    IF op = "disable"
    THEN InsertionOrder(DOMAIN config.channel_types \cup hist.touched, hist.types_late)
    ELSE InsertionOrder(DOMAIN config.channel_infos, hist.infos_late)

(* packets the handler takes while the operation runs: late CHANREP replies of a
   refresh, a sample-group packet, a spike of channel 1 *)
AllChannelsPackets ==
    {ChanPkt(CHANREP, DevChan(c, 0)) : c \in 1..NChans}
    \cup {[time |-> 2, chid |-> GROUP, type |-> 1, instrument |-> 0],
          [time |-> 2, chid |-> 1, type |-> 1, instrument |-> 0]}

RecvAllChannels == RecvFrom(AllChannelsPackets)

(* a connected device after a refresh: the instrument has NChans channels, the
   mirror has the class of each and the records that arrived *)
InitAllChannels ==
    /\ InitObjects(ConnectPkts, 2, RUNNING)
    /\ \E S \in SUBSET (1..NChans) :
         config = [runlevel |-> RUNNING, nplay |-> FALSE, transport |-> TRANSPORT_CHECK,
                   proc_chans |-> NChans, instrument |-> 0, sysfreq |-> 30000,
                   channel_infos |-> [c \in S |-> ChanPkt(CHANREP, DevChan(c, 0))],
                   channel_types |-> [c \in 1..NChans |->
                                        get_chantype_from_chaninfo(DevChan(c, 0))],
                   group_nchans |-> [g \in 1..6 |-> 0]]
    /\ events = [e \in EventNames |-> e # "runlevel_standby"]
    /\ send_q = <<>>
    /\ wire = <<>>
    /\ net = <<>>
    /\ io = [recv |-> "running", send |-> "running", closed |-> FALSE, lost |-> FALSE,
             pending |-> 0, done |-> FALSE, queue |-> TRUE]
    /\ dev = [runlevel |-> RUNNING, nplay |-> FALSE, unsolicited |-> 0, drops |-> 0,
              proto42 |-> FALSE, chans |-> [c \in 1..NChans |-> DevChan(c, 0)]]
    /\ pc = "connected"
    /\ sp = NoFrame
    /\ gc = NoFrame
    /\ cf = NoFrame
    /\ ret = [connect |-> RUNNING, returned |-> TRUE, set_runlevel |-> NoCall,
              get_config |-> "none", configure |-> "none", client |-> NoResult]
    /\ mk = NoFrame
    /\ codec = NoFrame

(* the chids of class chtype that have a channel record *)
ClassWithRecord(chtype) ==
    {c \in DOMAIN config.channel_infos : ChanTypeOf(c) = chtype}

(* CBAnaInpOpts.refelec_mask *)
refelec_mask == 48

(* the 32 bits of a c_uint32 field (v41.py 87-96) as two 16-bit halves *)
Halves(x) == [hi |-> x \div 65536, lo |-> x % 65536]

(* x | ~m on Python integers, stored in a c_uint32 field: every bit outside m
   is set, the bits of m stay as they are in x *)
OrNot32(x, m) ==
    [hi |-> BitOr(x \div 65536, 65535 - (m \div 65536)),
     lo |-> BitOr(x % 65536, 65535 - (m % 65536))]

(* nsp.py 1009-1017, 1028: the packet of configure_channel_disable, built from a
   copy of the mirror's record; line 1015 is `ainpopts |= ~refelec_rawstream`,
   so the packet's ainpopts is given by its halves *)
disable_packet(rec) ==
    [rec EXCEPT !.type = CHANSET,
                !.spkopts = BitClear(BitClear(@, EXTRACT), THRAUTO),
                !.ainpopts = OrNot32(BitClear(BitClear(BitClear(@,
                                 refelec_offsetcorrect), lnc_mask), refelec_mask),
                                 refelec_rawstream),
                !.smpgroup = 0,
                !.smpfilter = 0]

(* nsp.py 1029: the result of _send_packet is dropped and the call returns *)
DisableReturn ==
    /\ cf.phase = "wait"
    /\ sp.phase = "ret"
    /\ sp' = NoFrame
    /\ ConfigureEnd("ok", ~sp.res, TRUE)
    /\ UNCHANGED <<mirror, registries, handler, stop_event, recv_q, transportv, gc,
                   ghost>>

(* the frame of configure_channel_disable(chid) waiting in _send_packet: the
   record of the mirror the packet was built from, and the packet *)
DisableCall(chid) ==
    [phase |-> "wait", call |-> "disable", chid |-> chid,
     old |-> config.channel_infos[chid],
     pkt |-> disable_packet(config.channel_infos[chid]), failed |-> FALSE]

(* a frame f of a call made by the loop whose frame is l *)
InLoop(f, l) == [q \in DOMAIN f \cup {"loop"} |-> IF q = "loop" THEN l ELSE f[q]]

(* the arguments the client gives an operation on all channels: sampling group
   1 for configure_all_channels; enable and autothreshold for
   configure_all_channels_spike; configure_all_channels_disable has none *)
AllChannelsArgs(op) ==
    CASE op = "config" -> {<<"smpgroup", 1>>}
      [] op = "spk_config" -> {<<"enable", 1>>, <<"autothreshold", 1>>}
      [] OTHER -> {<<"disable", 0>>}

(* nsp.py 984, 1004, 1021: `for chid, ... in table.items()` creates the iterator
   over the keys in insertion order; it remembers the size of the table *)
AllChannelsCall ==
    /\ pc = "connected"
    /\ hist.ops < MaxOps
    /\ \E op \in {"config", "spk_config", "disable"},
          chtype \in {FrontEnd, AnalogIn, Any}, timed \in BOOLEAN :
       \E arg \in AllChannelsArgs(op) :
         /\ op = "disable" => timed
         /\ cf' = [phase |-> "iter", op |-> op, chtype |-> chtype,
                   attr |-> arg[1], g |-> arg[2], timed |-> timed,
                   keys |-> KeysInOrder(op),
                   size0 |-> Cardinality(TableKeys(op)),
                   pos |-> 1, written |-> <<>>,
                   expected0 |-> ClassWithRecord(chtype)]
    /\ pc' = "all_channels"
    /\ hist' = [hist EXCEPT !.ops = @ + 1]
    /\ UNCHANGED <<mirror, registries, handler, stop_event, recv_q, transportv, sp, gc,
                   ret, calls, rcvd, registered>>

(* nsp.py 984-986, 1004-1006, 1021-1023: one turn of the loop.  The iterator
   raises RuntimeError when the table has changed size; past the last key the
   operation returns; a chid of another class is skipped; for a chid of the
   requested class the loop calls configure_channel, configure_channel_spike or
   configure_channel_disable, which runs as it does for the client and returns
   into the loop (ConfigureEnd).  configure_channel_disable copies
   channel_infos[chid] first (nsp.py 1009), KeyError without it, and hands its
   packet to _send_packet with the chaninfo event and the default timeout *)
AllChannelsNext ==
    /\ pc = "all_channels"
    /\ cf.phase = "iter"
    /\ LET end(res) == /\ cf' = [cf EXCEPT !.phase = res]
                       /\ pc' = "connected"
                       /\ ret' = [ret EXCEPT !.configure = res]
                       /\ UNCHANGED sp
           chid == cf.keys[cf.pos]
       IN  IF Cardinality(TableKeys(cf.op)) # cf.size0 THEN end("RuntimeError")
           ELSE IF cf.pos > Len(cf.keys) THEN end("done")
           ELSE IF ChanTypeOf(chid) # cf.chtype
           THEN /\ cf' = [cf EXCEPT !.pos = @ + 1]
                /\ UNCHANGED <<pc, ret, sp>>
           ELSE IF cf.op # "disable"
           THEN /\ cf' = InLoop(ConfigureCall(chid, cf.attr, cf.g, cf.timed), cf)
                /\ UNCHANGED <<pc, ret, sp>>
           ELSE IF chid \notin DOMAIN config.channel_infos THEN end("KeyError")
           ELSE /\ cf' = InLoop(DisableCall(chid), cf)
                /\ sp' = SendPacketCall(disable_packet(config.channel_infos[chid]),
                                        "chaninfo", TRUE)
                /\ UNCHANGED <<pc, ret>>
    /\ UNCHANGED <<mirror, registries, handler, stop_event, recv_q, transportv, gc,
                   ghost>>

(* an operation on all channels of a class on a connected device whose
   instrument answers the requests, while other packets arrive *)
NextAllChannels ==
    \/ RecvAllChannels \/ HandlerGet \/ HandlerCall \/ HandlerDone
    \/ AllChannelsCall \/ AllChannelsNext
    \/ SmpgroupSend \/ SmpgroupAfterSend \/ SmpgroupRaise
    \/ AutothresholdSend \/ AutothresholdReturn \/ SpikeSend \/ DisableReturn
    \/ GetConfigClear \/ GetConfigSend \/ GetConfigCheck
    \/ SendPacketClear \/ SendPacketSend \/ SendPacketWaitSet \/ SendPacketWaitTimeout
    \/ Sender \/ Deliver

SpecAllChannels == InitAllChannels /\ [][NextAllChannels]_vars

(* the operation has ended, by return or by exception *)
AllChannelsEnded == "op" \in DOMAIN cf /\ cf.phase # "iter"

(* C27: an operation on all channels of a class always completes, whatever
   packets the handler processes meanwhile, and has issued its write for exactly
   the chids whose class in the mirror is the requested class and that have a
   channel record. *)
C27_AllChannelsComplete ==
    AllChannelsEnded =>
        /\ cf.phase = "done"
        /\ cf.expected0 \subseteq Range(cf.written)
        /\ Range(cf.written) \subseteq ClassWithRecord(cf.chtype)


(* --------------------------------- recipients of event packets (C28) *)
(* an event packet: chid neither 0 nor with bit 0x8000 *)
IsEventPkt(pkt) == ~IsConfigChid(pkt.chid) /\ pkt.chid # GROUP

(* C28: for an event packet from a channel of class C the callbacks invoked are
   those registered for C followed by those registered for Any (only those of
   Any when C is Any), each once per packet; dispatching never changes a
   registry: each registry holds exactly the callbacks that were registered and
   not unregistered. *)
C28_EventRecipients ==
    /\ \A k \in 1..Dispatched :
         (IsEventPkt(rcvd[k].pkt) /\ (k < Dispatched \/ hpc = "idle"))
            => CallsOf(k) = ExpectedFor(rcvd[k].pkt)
    /\ \A t \in ChannelTypes : event_callbacks[t] = RegisteredOn("event", t)
    /\ \A g \in DOMAIN group_callbacks : group_callbacks[g] = RegisteredOn("group", g)


(* ----------------------------------------- analog-input option writes (C29) *)
(* the option bits of CBAnaInpOpts (nsp.py 124-134) *)
AinpBits == {0, 1, 2, 4, 5, 6, 8}

RECURSIVE Pow2(_)
Pow2(n) == IF n = 0 THEN 1 ELSE 2 * Pow2(n - 1)

RECURSIVE SumOf(_)
SumOf(S) == IF S = {} THEN 0 ELSE LET x == CHOOSE y \in S : TRUE IN x + SumOf(S \ {x})

(* bit b of x *)
Bit(x, b) == (x \div Pow2(b)) % 2

(* the ainpopts the instrument may have reported: any combination of the bits *)
AinpValues == {SumOf({Pow2(b) : b \in B}) : B \in SUBSET AinpBits}

(* the flags _toggle_channel_ainp_flag is called with (nsp.py 631, 637, 818) *)
ToggleFlags == {refelec_rawstream, refelec_offsetcorrect}

InitAinp == \E o \in AinpValues : InitConnected(o)

(* nsp.py 603-613: the toggle builds its packet and hands it to _send_packet *)
AinpToggle ==
    /\ pc = "connected"
    /\ hist.ops < MaxOps
    /\ \E chid \in 1..NChans, flag \in ToggleFlags, enable \in BOOLEAN :
         LET pkt == toggle_packet(config.channel_infos[chid], flag, enable)
         IN  /\ cf' = [phase |-> "sent", kind |-> "toggle", chid |-> chid, flag |-> flag,
                       enable |-> enable, old |-> config.channel_infos[chid].ainpopts,
                       pkt |-> pkt]
             /\ send_q' = io_send(header_time(pkt))
    /\ hist' = [hist EXCEPT !.ops = @ + 1]
    /\ UNCHANGED <<mirror, registries, handler, stop_event, recv_q, wire, net, io, dev,
                   pc, sp, gc, ret, calls, rcvd, registered>>

(* nsp.py 736-745: the LNC write builds its packet and hands it to _send_packet *)
AinpLnc ==
    /\ pc = "connected"
    /\ hist.ops < MaxOps
    /\ \E chid \in 1..NChans, v \in {0, 1} :
         LET pkt == lnc_packet(config.channel_infos[chid], v)
         IN  /\ cf' = [phase |-> "sent", kind |-> "lnc", chid |-> chid, flag |-> lnc_mask,
                       enable |-> (v # 0), old |-> config.channel_infos[chid].ainpopts,
                       pkt |-> pkt]
             /\ send_q' = io_send(header_time(pkt))
    /\ hist' = [hist EXCEPT !.ops = @ + 1]
    /\ UNCHANGED <<mirror, registries, handler, stop_event, recv_q, wire, net, io, dev,
                   pc, sp, gc, ret, calls, rcvd, registered>>

NextAinp == AinpToggle \/ AinpLnc

SpecAinp == InitAinp /\ [][NextAinp]_vars

(* C29: the packet of an ainp-flag toggle for mask F is a CHANSETAINP whose
   ainpopts has the bits of F set exactly when enable and every other bit as in
   the mirror's record; the LNC write has the three bits of lnc_mask cleared,
   then lnc_runsoft set when the value is non-zero, the other bits as in the
   mirror's record. *)
C29_AinpBits ==
    cf.phase = "sent" =>
        /\ cf.pkt.type = CHANSETAINP
        /\ send_q # <<>> /\ send_q[Len(send_q)] = cf.pkt
        /\ \A b \in 0..8 :
             Bit(cf.pkt.ainpopts, b) =
                IF Bit(cf.flag, b) = 0 THEN Bit(cf.old, b)
                ELSE IF cf.kind = "toggle" THEN (IF cf.enable THEN 1 ELSE 0)
                ELSE IF cf.enable /\ b = 1 THEN 1 ELSE 0
        /\ cf.pkt.ainpopts < Pow2(9)

(* an LNC write on a channel whose record has lnc_runhard and lnc_hold set and
   other options besides *)
C29_Witness ==
    /\ cf.phase = "sent"
    /\ cf.kind = "lnc"
    /\ cf.enable
    /\ Bit(cf.old, 0) = 1 /\ Bit(cf.old, 2) = 1 /\ Bit(cf.old, 6) = 1
    /\ Bit(cf.pkt.ainpopts, 1) = 1


(* -------------------------------------------- the handler's counters (C30) *)
(* timestamps of the packets: below, at and above the initial last_time *)
PacketTimes == {0, 1, 3, 5}

(* group-6 sample packets and spike packets of channel 1 with those timestamps *)
TimePackets ==
    { [time |-> t, chid |-> c, type |-> IF c = GROUP THEN 6 ELSE 1, instrument |-> 0] :
        t \in PacketTimes, c \in {GROUP, 1} }

RecvTime == RecvFrom(TimePackets)

(* the device as constructed (nsp.py 284, base.py 52), its transport started *)
InitTime ==
    /\ InitDevice
    /\ send_q = <<>>
    /\ wire = <<>>
    /\ net = <<>>
    /\ io = [recv |-> "running", send |-> "running", closed |-> FALSE, lost |-> FALSE,
             pending |-> 0, done |-> FALSE, queue |-> TRUE]
    /\ dev = [runlevel |-> RUNNING, nplay |-> FALSE, unsolicited |-> 0, drops |-> 0,
              proto42 |-> FALSE, chans |-> [c \in 1..NChans |-> DevChan(c, 0)]]
    /\ pc = "init"
    /\ sp = NoFrame
    /\ gc = NoFrame
    /\ cf = NoFrame
    /\ ret = [connect |-> 0, returned |-> FALSE, set_runlevel |-> NoCall,
              get_config |-> "none", configure |-> "none", client |-> NoResult]

(* the client registers callbacks for the packets before the first arrives *)
RegisterTime ==
    /\ rcvd = <<>>
    /\ RegisterOn({<<"group", 6>>, <<"event", Any>>})

NextTime == RegisterTime \/ RecvTime \/ HandlerGet \/ HandlerCall \/ HandlerDone

SpecTime == InitTime /\ [][NextTime]_vars

(* the timestamps of the packets the handler has processed so far *)
ProcessedTimes == {rcvd[i].pkt.time : i \in 1..(Len(rcvd) - Len(recv_q))}

(* C30: last_time never decreases; it starts at 1 and, after the handler has
   processed any prefix of the received packets, is the maximum of 1 and the
   timestamps of the packets processed so far; pkts_received is the number of
   packets processed so far. *)
C30_LastTimeIsMaximum ==
    /\ [][last_time' >= last_time]_vars
    /\ [](/\ last_time \in ProcessedTimes \cup {1}
          /\ \A t \in ProcessedTimes \cup {1} : t <= last_time
          /\ pkts_received = Len(rcvd) - Len(recv_q))

(* a packet stamped 5 and then one stamped 3 have been processed *)
C30_Witness ==
    /\ pkts_received = 2
    /\ rcvd[1].pkt.time = 5
    /\ rcvd[2].pkt.time = 3
    /\ last_time = 5


(* ------------------------------------ slicing of whole packets (C31) *)
(* the queue entry of a whole packet p: the four header values and p's bytes *)
EntryOf(ver, p) ==
    LET h == ParseStruct(HeaderLayout(ver), p, 0)
    IN  [time |-> h.time, chid |-> h.chid, type |-> h.type, dlen |-> h.dlen, data |-> p]

(* sequences of up to three whole packets *)
WholeSeqs(ver) ==
    UNION { [1..n -> WirePackets(ver)] : n \in 0..3 }

RECURSIVE Concat(_)
Concat(ss) == IF ss = <<>> THEN <<>> ELSE Head(ss) \o Concat(Tail(ss))

(* d is the packets ps followed by fewer bytes than a header has *)
WholeThenTail(ver, d, ps) ==
    LET c == Concat(ps)
    IN  /\ Len(c) <= Len(d)
        /\ Len(d) - Len(c) < SizeOf(HeaderLayout(ver))
        /\ SubSeq(d, 1, Len(c)) = c

(* the tuples of all datagrams received so far, in order *)
RECURSIVE TuplesOf(_)
TuplesOf(log) == IF log = <<>> THEN <<>> ELSE Head(log).tuples \o TuplesOf(Tail(log))

(* C31: for a datagram that is a concatenation of whole packets p1..pn,
   possibly followed by a tail shorter than one header, the receiver enqueues
   exactly n entries, in order, the i-th carrying the time, chid, type and dlen
   of pi's header and pi's header_size + 4*dlen bytes; the tail is discarded;
   the slicing loop terminates for every datagram (each entry takes at least a
   header from the datagram), including packets with dlen = 0.  The entries
   of a datagram are compared in the state in which it has just been sliced
   (none of its entries put yet); the log of received datagrams only grows. *)
C31_WholePacketsSliced ==
    /\ pkts_received <= Len(TuplesOf(rcvd))
    /\ recv_q \o io.putting
         = SubSeq(TuplesOf(rcvd), pkts_received + 1, Len(TuplesOf(rcvd)))
    /\ \A i \in 1..Len(rcvd) :
         Len(rcvd[i].tuples) * SizeOf(HeaderLayout(dev.proto)) <= Len(rcvd[i].datagram)
    /\ (rcvd # <<>> /\ io.putting = rcvd[Len(rcvd)].tuples) =>
         LET i  == Len(rcvd)
             d  == rcvd[i].datagram
             hs == SizeOf(HeaderLayout(dev.proto))
         IN  \A ps \in WholeSeqs(dev.proto) :
                  WholeThenTail(dev.proto, d, ps) =>
                    /\ rcvd[i].tuples = [j \in 1..Len(ps) |-> EntryOf(dev.proto, ps[j])]
                    /\ \A j \in 1..Len(ps) :
                         Len(rcvd[i].tuples[j].data)
                            = hs + 4 * rcvd[i].tuples[j].dlen

(* a datagram of two whole packets, the second without a body, and a tail that
   is not empty, has been received *)
C31_Witness ==
    \E i \in 1..Len(rcvd) :
        \E ps \in WholeSeqs(dev.proto) :
            /\ Len(ps) = 2
            /\ WholeThenTail(dev.proto, rcvd[i].datagram, ps)
            /\ Len(rcvd[i].datagram) > Len(Concat(ps))
            /\ Len(rcvd[i].tuples) = 2
            /\ rcvd[i].tuples[1].dlen > 0
            /\ rcvd[i].tuples[2].dlen = 0


(* ---------------------------------------------- the send context (C32) *)
(* a connected device: the client makes one configure_channel call and may
   disconnect, the connection may be lost at any time *)
NextSender ==
    \/ ClientConfigure
    \/ SmpgroupToggle \/ SmpgroupAfterToggle \/ SmpgroupSend \/ SmpgroupAfterSend
    \/ AutothresholdSend \/ AutothresholdReturn
    \/ CheckedSend \/ GlobalLncSend \/ SpikeSend
    \/ SendPacketClear \/ SendPacketSend \/ SendPacketTest
    \/ SendPacketWaitSet \/ SendPacketWaitTimeout
    \/ ClientDisconnect \/ DisconnectStopIO \/ DisconnectSendQuit \/ DisconnectTestQuit
    \/ DisconnectStopHandler
    \/ DisconnectJoinIO \/ DisconnectJoinHandler
    \/ ConnLost \/ Sender \/ Deliver \/ Drop \/ ConnectionLost \/ ReceiverLost \/ ThreadExit
    \/ HandlerGet \/ HandlerCall \/ HandlerDone
    \/ HandlerEmpty \/ HandlerWaitTimeout \/ HandlerExit

SpecSender == InitConfig /\ [][NextSender]_vars

(* datagram.py 172: the sender takes the next message from the send queue *)
SenderStep == io.send = "running" /\ send_q # <<>> /\ send_q' = Tail(send_q)

(* s is t with some elements left out *)
IsSubSeq(s, t) ==
    \E f \in [1..Len(s) -> 1..Len(t)] :
        /\ \A i, j \in 1..Len(s) : i < j => f[i] < f[j]
        /\ \A i \in 1..Len(s) : s[i] = t[f[i]]

(* C32 as stated: the sender transmits the messages of the send queue in FIFO
   order, one per message, so that the wire carries the requests in the order of
   the _send_packet calls; every message taken before the sentinel is
   transmitted; the sender ends when it takes the sentinel and transmits nothing
   afterwards. *)
C32_SenderTransmitsAll ==
    /\ [][(SenderStep /\ IsQuit(Head(send_q))) =>
            (io'.send = "exited" /\ wire' = wire)]_vars
    /\ [][(SenderStep /\ ~IsQuit(Head(send_q))) =>
            (io'.send = "running" /\ wire' = Append(wire, Head(send_q)))]_vars
    /\ [][wire' # wire => SenderStep]_vars
    /\ [](IsSubSeq(wire, hist.sent))

(* ------------------------------------- what ends the handler thread (C33) *)
(* packets on the network while the configuration is being read: a
   configuration packet of a type (126) that no callback and no packet class is
   registered for, group packets 1 and 7, the CHANREP of
   channel 2 with capabilities that match no class rule, an event packet of
   channel 2, the scoped reply CHANREPSMP for channel 1, the GROUPREP of
   group 1, a COMMENTREP, and a SYSREPRUNLEV whose runlevel (0) is no member of
   CBRunLevel *)
SurvivePackets ==
    { [time |-> 2, chid |-> CONFIGURATION, type |-> 126, instrument |-> 0],
      [time |-> 2, chid |-> GROUP, type |-> 1, instrument |-> 0],
      [time |-> 2, chid |-> GROUP, type |-> 7, instrument |-> 0],
      CfgPkt(CHANREP, FullChan(2, <<0, 0, 0>>, 1)),
      [time |-> 2, chid |-> 2, type |-> 1, instrument |-> 0],
      CfgPkt(CHANREPSMP, FullChan(1, <<CAPS_ainp, 0, 0>>, 1)),
      CfgPkt(GROUPREP, [group |-> 1, length |-> 1, chan_list |-> <<1>>]),
      CfgPkt(COMMENTREP, <<>>),
      SysPkt(SYSREPRUNLEV, 0) }

RecvSurvive == RecvFrom(SurvivePackets)

(* the device after connect(startup_sequence=False) to a running instrument and
   a get_config that timed out on a lossy network: the SYSREPRUNLEV, the echo and
   the PROCREP have been handled, every CHANREP, GROUPREP and the SYSREP were
   lost *)
InitSurvive ==
    /\ InitObjects(3, 2, RUNNING)
    /\ config = [runlevel |-> RUNNING, nplay |-> FALSE, transport |-> TRANSPORT_CHECK,
                 proc_chans |-> NChans, instrument |-> 0, sysfreq |-> 30000,
                 channel_infos |-> <<>>, channel_types |-> <<>>,
                 group_nchans |-> <<>>]
    /\ events = [e \in EventNames |-> e = "runlevel_running"]
    /\ send_q = <<>>
    /\ wire = <<>>
    /\ net = <<>>
    /\ io = [recv |-> "running", send |-> "running", closed |-> FALSE, lost |-> FALSE,
             pending |-> 0, done |-> FALSE, queue |-> TRUE]
    /\ dev = [runlevel |-> RUNNING, nplay |-> FALSE, unsolicited |-> 0, drops |-> 0,
              proto42 |-> FALSE, chans |-> [c \in 1..NChans |-> FullDevChan(c)]]
    /\ pc = "connected"
    /\ sp = NoFrame
    /\ gc = NoFrame
    /\ cf = NoFrame
    /\ ret = [connect |-> RUNNING, returned |-> TRUE, set_runlevel |-> NoCall,
              get_config |-> "none", configure |-> "none", client |-> NoResult]
    /\ mk = NoFrame
    /\ codec = NoFrame

(* the client registers its group-1 and event callbacks, and one for the
   configuration type 126, before the first packet *)
RegisterSurvive ==
    /\ rcvd = <<>>
    /\ RegisterOn({<<"group", 1>>, <<"event", Any>>, <<"config", 126>>})

NextSurvive ==
    \/ RegisterSurvive
    \/ RecvSurvive
    \/ HandlerGet \/ HandlerCall \/ HandlerDone
    \/ HandlerEmpty \/ HandlerWaitTimeout \/ HandlerExit
    \/ ClientDisconnect \/ DisconnectStopIO \/ DisconnectSendQuit \/ DisconnectStopHandler
    \/ DisconnectJoinIO \/ DisconnectJoinHandler
    \/ Sender \/ ConnectionLost \/ ReceiverLost \/ ThreadExit

SpecSurvive == InitSurvive /\ [][NextSurvive]_vars

(* C33: the handler context exits only after stop() was called; no received
   packet ends its loop: not a configuration packet of unknown type, a group
   packet with an id outside 1..6, a group packet for a group that has a
   registered callback and no GROUPREP yet, an event packet from a channel whose
   CHANREP matched no class rule, or a scoped channel reply for a chid in
   [1, proc_chans] that has no channel record yet. *)
C33_HandlerEndsOnlyOnStop ==
    hpc \notin {"idle", "dispatch", "wait"} => stop_event


(* ------------------------------------ the receive queue and stop() (C34) *)
(* the client registers an event callback before the first packet *)
RegisterQueue ==
    /\ rcvd = <<>>
    /\ RegisterOn({<<"event", Any>>})

(* packets arrive at any time while the client disconnects: stop() of the
   transport and of the handler, then the joins *)
NextQueue ==
    \/ RegisterQueue
    \/ Recv
    \/ HandlerGet \/ HandlerCall \/ HandlerDone
    \/ HandlerEmpty \/ HandlerWaitTimeout \/ HandlerExit
    \/ ClientDisconnect \/ DisconnectStopIO \/ DisconnectSendQuit \/ DisconnectStopHandler
    \/ DisconnectJoinIO \/ DisconnectJoinHandler
    \/ Sender \/ ConnectionLost \/ ReceiverLost \/ ThreadExit

(* the handler thread is scheduled: it takes the next packet, its callbacks
   return and its wait on the stop event ends *)
SpecQueue ==
    /\ InitDispatch
    /\ [][NextQueue]_vars
    /\ WF_vars(HandlerGet)
    /\ WF_vars(HandlerCall)
    /\ WF_vars(HandlerDone)
    /\ WF_vars(HandlerWaitTimeout)
    /\ WF_vars(HandlerExit)

(* packets the handler has taken from the queue since the connect *)
Taken == pkts_received - ConnectPkts

(* C34 as stated: no packet is lost between transport and handler: the
   receiver's enqueue does not wait for the handler, every packet enqueued is
   taken from the queue exactly once and in FIFO order, a packet enqueued while
   the handler runs is eventually processed, and after stop() the handler exits
   only when the queue is empty, so every packet enqueued before the stop was
   observed is processed. *)
C34_NoPacketLost ==
    /\ [](Len(rcvd) < MaxPkts /\ ~io.closed => ENABLED Recv)
    /\ [](/\ Taken + Len(recv_q) = Len(rcvd)
          /\ \A i \in 1..Len(recv_q) : recv_q[i] = rcvd[Taken + i].pkt)
    /\ [][(hpc' = "exited" /\ hpc # "exited") => (stop_event /\ recv_q = <<>>)]_vars
    /\ \A k \in 1..MaxPkts :
         (Len(rcvd) >= k /\ hpc # "exited") ~> (Taken >= k \/ hpc = "crashed")

(* C34: the receiver's enqueue does not wait for the handler; every packet is
   taken from the queue at most once and in FIFO order (the queue always holds
   exactly the packets received and not yet taken); the handler begins a wait
   on the stop event only when it has found the queue empty and exits only out
   of such a wait, with the stop event set and without looking at the queue
   again; a packet enqueued is eventually processed unless the handler exits or
   dies first. *)
C34_NoPacketLostBeforeWait ==
    /\ [](Len(rcvd) < MaxPkts /\ ~io.closed => ENABLED Recv)
    /\ [](/\ Taken + Len(recv_q) = Len(rcvd)
          /\ \A i \in 1..Len(recv_q) : recv_q[i] = rcvd[Taken + i].pkt)
    /\ [][(hpc' = "wait" /\ hpc # "wait") => recv_q = <<>>]_vars
    /\ [][(hpc' = "exited" /\ hpc # "exited") => (stop_event /\ hpc = "wait")]_vars
    /\ \A k \in 1..MaxPkts :
         (Len(rcvd) >= k) ~> (Taken >= k \/ hpc \in {"crashed", "exited"})

(* the handler has exited after stop() with a packet left on the queue: the
   packet arrived while the handler waited on the stop event *)
C34_Witness ==
    /\ hpc = "exited"
    /\ Len(rcvd) = 2
    /\ Taken = 1
    /\ Len(recv_q) = 1
    /\ Len(calls) > 0


(* ------------------------------------- samples of a group packet (C35) *)
(* the GROUPREP of group 1 with n channels *)
GroupRep(n) == CfgPkt(GROUPREP, [group |-> 1, length |-> n, chan_list |-> [i \in 1..n |-> i]])

(* the number of channels of group 1 the instrument has last reported *)
ReportedChans ==
    LET reps == SelectSeq(rcvd, LAMBDA r : IsConfigChid(r.pkt.chid) /\ r.pkt.type = GROUPREP)
    IN  IF reps = <<>> THEN 0 ELSE reps[Len(reps)].pkt.length

(* a group-1 sample packet as the wire carries it: the int16 samples of the
   channels and, for an odd number of channels, one dummy slot *)
SamplePacket(n) ==
    [time |-> 2, chid |-> GROUP, type |-> 1, instrument |-> 0,
     data |-> [i \in 1..(n + (n % 2)) |-> i]]

(* datagram.py 55-61: the instrument reports a channel list for group 1, or
   sends the samples of the channels it has reported *)
RecvSamples ==
    RecvFrom({GroupRep(n) : n \in 0..MaxElems} \cup {SamplePacket(ReportedChans)})

(* the client registers its group-1 callbacks before the first packet *)
RegisterSamples ==
    /\ rcvd = <<>>
    /\ RegisterOn({<<"group", 1>>})

NextSamples == RegisterSamples \/ RecvSamples \/ HandlerGet \/ HandlerCall \/ HandlerDone

SpecSamples == InitDispatch /\ [][NextSamples]_vars

(* C35: every group packet delivered to a group callback has a trailing sample
   array whose length equals the configured number of enabled channels of that
   group (group_nchans[group]), for odd and for even channel counts, given that
   the wire carries that count rounded up to an even number of int16 samples. *)
C35_GroupSamplesTruncated ==
    (hpc = "dispatch" /\ hpkt.chid = GROUP) =>
        /\ hcbs = <<"group", hpkt.type>>
        /\ Len(hpkt.data) = config.group_nchans[hpkt.type]
        /\ hpkt.data = SubSeq(rcvd[hpkt.seq].pkt.data, 1, config.group_nchans[hpkt.type])

(* a packet of a group with three channels, received with four samples, is being
   delivered with three *)
C35_Witness ==
    /\ hpc = "dispatch"
    /\ hpkt.chid = GROUP
    /\ config.group_nchans[hpkt.type] = 3
    /\ Len(rcvd[hpkt.seq].pkt.data) = 4
    /\ Len(hpkt.data) = 3


(* ------------------------------------------------------------------------ *)
(* The limit on the trailing array: decoding and assigning                   *)
(* ------------------------------------------------------------------------ *)

(* the classes whose limit the claim names *)
LimitedClasses == {"CBPacketSpike", "CBPacketGroup"}

(* packets.py 81-83, 124-126: the max_elements property of the class *)
max_elements(cls) ==
    CASE cls = "CBPacketSpike" -> 128
      [] cls = "CBPacketGroup" -> 272

(* the number of elements the array is filled with goes up to OverLimit
   elements past max_elements *)
OverLimit == 2

ArrayLens(cls) ==
    {0, OverLimit, max_elements(cls) - OverLimit, max_elements(cls),
     max_elements(cls) + OverLimit}

FilledArrays(cls) ==
    { [k \in 1..n |-> v] : n \in ArrayLens(cls), v \in ElemValues(cls) }

(* cls(): abstract.py 25-33 *)
InitLimit ==
    /\ ConnectedDevice(0)
    /\ mk = NoFrame
    /\ \E cls \in LimitedClasses :
         \E ver \in HeaderVersions, b \in Bodies(cls) :
           codec = [phase |-> "new",
                    pkt |-> [cls |-> cls, ver |-> ver, header |-> NewHeader(cls, ver, 0),
                             body |-> b, array |-> <<>>]]

(* cls(buffer): abstract.py 47-55; the buffer is the bytes of a packet of the
   same class and protocol whose array has n elements *)
DecodeBuffer ==
    /\ \E a \in FilledArrays(codec.pkt.cls) :
         LET src == [codec.pkt EXCEPT !.array = a,
                       !.header = NewHeader(codec.pkt.cls, codec.pkt.ver, Len(a))]
             r   == pkt_decode(src.cls, src.ver, pkt_bytes(src))
         IN  codec' = [phase |-> "decoded", pkt |-> r.pkt]
    /\ UNCHANGED <<mirror, registries, pkts_received, last_time, last_group_time,
                   warnings, hpc, hpkt, hcbs, hidx, hcls, mk, stop_event, recv_q,
                   transportv, caller, ghost>>

(* pkt.data = a, pkt.wave = a: abstract.py 95-102, packets.py 107-109; the
   assert on max_elements raises before the array is replaced *)
AssignData ==
    /\ \E a \in FilledArrays(codec.pkt.cls) :
         codec' = IF Len(a) <= max_elements(codec.pkt.cls)
                  THEN [phase |-> "set",
                        pkt |-> update_dlen([codec.pkt EXCEPT !.array = a])]
                  ELSE [phase |-> "AssertionError", pkt |-> codec.pkt]
    /\ UNCHANGED <<mirror, registries, pkts_received, last_time, last_group_time,
                   warnings, hpc, hpkt, hcbs, hidx, hcls, mk, stop_event, recv_q,
                   transportv, caller, ghost>>

NextLimit == DecodeBuffer \/ AssignData

SpecLimit == InitLimit /\ [][NextLimit]_vars

(* C36: the trailing array of a variable-length packet never holds more than
   the max_elements of its class (128 for the spike packet, 272 for the sample
   group packet), whether it was filled by decoding a buffer or by assigning
   the array of a locally built packet. *)
C36_ArrayWithinMaxElements ==
    Len(codec.pkt.array) <= max_elements(codec.pkt.cls)


(* ------------------------------------------------------------------------ *)
(* make_packet on a buffer shorter than the class                            *)
(* ------------------------------------------------------------------------ *)

PaddedClasses == {"CBPacketSpike", "CBPacketGroupInfo", "CBPacketComment", "CBPacketNPlay"}

(* b"\x00" * n *)
Zeros(n) == [i \in 1..n |-> 0]

(* make_packet with `raise` in place of the padding branch *)
make_packet_decode_raises(cls, ver, data) ==
    pkt_decode(cls, ver, data)

(* factory.py 99-136 with data given: pkt_cls(data); on ValueError the data is
   padded with n_missing zero bytes and read with from_buffer_copy, which
   leaves the class's empty _array; with n_missing = 0 the result is None.
   Empty data is falsy: pkt_cls(b"") is the packet of cls() (abstract.py
   19-33) *)
make_packet_decode(cls, ver, data) ==
    LET d == pkt_decode(cls, ver, data)
        n_missing == ClassSize(cls, ver) - Len(data)
    IN  IF data = <<>>
        THEN [err |-> "none",
              pkt |-> [cls |-> cls, ver |-> ver, header |-> NewHeader(cls, ver, 0),
                       body |-> ParseStruct(BodyLayout(cls), Zeros(ClassSize(cls, ver)),
                                            SizeOf(HeaderLayout(ver))),
                       array |-> <<>>]]
        ELSE IF d.err # "ValueError" THEN d
        ELSE IF n_missing # 0
        THEN [err |-> "none",
              pkt |-> [cls |-> cls, ver |-> ver,
                       header |-> ParseStruct(HeaderLayout(ver), data \o Zeros(n_missing), 0),
                       body |-> ParseStruct(BodyLayout(cls), data \o Zeros(n_missing),
                                            SizeOf(HeaderLayout(ver))),
                       array |-> <<>>]]
        ELSE [err |-> "none", pkt |-> NoPkt]

(* the data of a queue entry: the bytes of a packet of the class, whole or cut
   anywhere behind the header (datagram.py 83-87) *)
InitPad ==
    /\ ConnectedDevice(0)
    /\ mk = NoFrame
    /\ \E cls \in PaddedClasses :
         \E ver \in BuiltVersions(cls), b \in Bodies(cls) :
           LET p == [cls |-> cls, ver |-> ver, header |-> NewHeader(cls, ver, 0),
                     body |-> b, array |-> <<>>]
               whole == StructBytes(HeaderLayout(ver), p.header)
                          \o StructBytes(BodyLayout(cls), b)
           IN  \E n \in SizeOf(HeaderLayout(ver))..Len(whole) :
                 codec = [phase |-> "queued", cls |-> cls, ver |-> ver,
                          bytes |-> SubSeq(whole, 1, n)]

(* handler.py 108-110: the packet object is made from the data *)
MakeFromData ==
    /\ codec.phase = "queued"
    /\ codec' = [phase |-> "made", cls |-> codec.cls, ver |-> codec.ver,
                 bytes |-> codec.bytes,
                 out |-> make_packet_decode(codec.cls, codec.ver, codec.bytes)]
    /\ UNCHANGED <<mirror, registries, pkts_received, last_time, last_group_time,
                   warnings, hpc, hpkt, hcbs, hidx, hcls, mk, stop_event, recv_q,
                   transportv, caller, ghost>>

NextPad == MakeFromData

SpecPad == InitPad /\ [][NextPad]_vars

(* C37: make_packet on data shorter than the fixed size of the selected class
   succeeds: the result is a packet, not None and not an error, whose memory
   is the received bytes followed by zero bytes up to the fixed size, so the
   fields the received bytes cover keep the received values and the others are
   zero. *)
C37_ShortBufferPadded ==
    (codec.phase = "made" /\ Len(codec.bytes) < ClassSize(codec.cls, codec.ver))
    => /\ codec.out.err = "none"
       /\ codec.out.pkt # NoPkt
       /\ StructBytes(HeaderLayout(codec.ver), codec.out.pkt.header)
            \o StructBytes(BodyLayout(codec.cls), codec.out.pkt.body)
          = codec.bytes \o Zeros(ClassSize(codec.cls, codec.ver) - Len(codec.bytes))
       /\ codec.out.pkt.array = <<>>

(* a spike packet cut behind nPeak: nPeak as received, nValley zero *)
C37_Witness ==
    /\ codec.phase = "made"
    /\ codec.cls = "CBPacketSpike"
    /\ Len(codec.bytes) = ClassSize(codec.cls, codec.ver) - 2
    /\ codec.out.err = "none"
    /\ codec.out.pkt.body.nPeak = -3
    /\ codec.out.pkt.body.nValley = 0


(* ------------------------------------------------------------------------ *)
(* Blocking channel writes and the chaninfo event                            *)
(* ------------------------------------------------------------------------ *)

(* channel replies the instrument sends without a request of this client (it
   answers the writes of every host on the network by broadcast): a reply of
   another scope, a reply of the scope of the write, and a reply that carries
   another instrument's number, each for any channel *)
ForeignReplies ==
    UNION { { ChanPkt(CHANREPAINP, dev.chans[c]),
              ChanPkt(CHANREPSMP, dev.chans[c]),
              [ChanPkt(CHANREPSMP, dev.chans[c]) EXCEPT !.instrument = 1] }
            : c \in 1..NChans }

DevChanBroadcast ==
    /\ dev.unsolicited < MaxUnsolicited
    /\ dev.drops + dev.unsolicited < MaxDisturbances
    /\ io.recv = "running"
    /\ ~io.closed
    /\ \E p \in ForeignReplies : net' = Append(net, p)
    /\ dev' = [dev EXCEPT !.unsolicited = @ + 1]
    /\ UNCHANGED <<mirror, registries, handler, stop_event, recv_q, send_q, wire, io,
                   caller, ghost>>

(* one configure_channel call on a connected device while the instrument also
   answers other hosts *)
NextWrite ==
    \/ ClientConfigure
    \/ GetConfigClear \/ GetConfigSend \/ GetConfigCheck
    \/ SmpgroupToggle \/ SmpgroupAfterToggle \/ SmpgroupSend \/ SmpgroupAfterSend
    \/ SmpgroupRaise \/ AutothresholdSend \/ AutothresholdReturn
    \/ CheckedSend \/ GlobalLncSend \/ SpikeSend
    \/ SendPacketClear \/ SendPacketSend \/ SendPacketWaitSet \/ SendPacketWaitTimeout
    \/ Sender \/ Deliver \/ Drop \/ DevChanBroadcast
    \/ HandlerGet \/ HandlerCall \/ HandlerDone

SpecWrite == InitDispatch /\ [][NextWrite]_vars

(* C38: when a blocking channel write for chid c (timeout > 0) returns without
   reporting failure, the handler has applied to the mirror, after the request
   was sent, a reply for channel c, so at the return the mirror's record of c
   holds the written value; a reply for another chid, of another scope, or a
   dropped one cannot make the write report success. *)
C38_SuccessMeansApplied ==
    [][(cf.phase = "smp_wait" /\ cf.attr = "smpgroup" /\ cf'.phase = "done" /\ cf.timed)
         => config.channel_infos[cf.chid].smpgroup = cf.g]_vars


(* ------------------------------------------------------------------------ *)
(* A second session on the same device object                                *)
(* ------------------------------------------------------------------------ *)

(* handler.py 36-38, 131-132: receiver_queue is None once run() has returned;
   a thread that died of an exception has kept its queue *)
ReceiverQueueIsNone == hpc = "exited"

(* connect() calls after a disconnect() on the same device object *)
MaxReconnects == 1

(* nsp.py 1192-1213: connect() after disconnect() has returned.  A new transport
   thread is made with the handler's receiver_queue and started (it runs in
   TransportRun and TransportStart); the handler thread, started once in
   __init__ (nsp.py 318-319), is not started again.  connect then goes on as
   the first time: the startup sequence, or the refresh of the runlevel *)
Reconnect ==
    /\ pc = "returned"
    /\ hist.reconnects < MaxReconnects
    /\ io' = [recv |-> "off", send |-> "off", closed |-> FALSE, lost |-> FALSE,
              pending |-> 0, done |-> FALSE, queue |-> ~ReceiverQueueIsNone]
    /\ send_q' = <<>>
    /\ \E ss \in BOOLEAN :
         /\ pc' = IF ss THEN "su_running" ELSE "conn_getrl"
         /\ hist' = [hist EXCEPT !.startup = ss, !.reconnects = @ + 1]
    /\ sp' = SetRunlevelCall(RUNNING, TRUE)
    /\ ret' = [ret EXCEPT !.connect = 0, !.returned = FALSE]
    /\ UNCHANGED <<mirror, registries, handler, stop_event, recv_q, wire, net, dev,
                   gc, cf, calls, rcvd, registered>>

(* datagram.py 55-61: a datagram arrives at the open socket of the running
   transport; self._recv_queue.put raises AttributeError when the transport was
   made with None, and the packet is not queued *)
RecvSession ==
    /\ io.recv = "running"
    /\ ~io.closed
    /\ Len(rcvd) < MaxPkts
    /\ \E p \in EventPackets :
         LET q == WithSeq(p, Len(rcvd) + 1)
         IN  /\ rcvd' = Append(rcvd, [pkt |-> q, regs |-> hist.ever])
             /\ recv_q' = IF io.queue THEN Append(recv_q, q) ELSE recv_q
    /\ UNCHANGED <<mirror, registries, handler, stop_event, transportv, caller,
                   calls, registered, hist>>

(* a session with a registered callback, disconnect(), connect() again: the
   waits of the second connect() end by their timeout, no packet reaches the
   handler that could set an event *)
NextSession ==
    \/ RegisterQueue
    \/ RecvSession
    \/ HandlerGet \/ HandlerCall \/ HandlerDone
    \/ HandlerEmpty \/ HandlerWaitTimeout \/ HandlerExit
    \/ ClientDisconnect \/ DisconnectStopIO \/ DisconnectSendQuit \/ DisconnectTestQuit
    \/ DisconnectStopIOError
    \/ DisconnectStopHandler \/ DisconnectJoinIO \/ DisconnectJoinHandler
    \/ Sender \/ Deliver \/ Drop \/ ConnectionLost \/ ReceiverLost \/ ThreadExit
    \/ Reconnect \/ TransportRun \/ TransportStart \/ SenderPoll
    \/ SendPacketClear \/ SendPacketSend \/ SendPacketWaitTimeout
    \/ StartupAfterRunning \/ ConnectRefreshed

SpecSession == InitDispatch /\ [][NextSession]_vars

(* C39: after connect(), disconnect() and connect() again on the same device
   object the handler thread runs and every packet the new transport has
   received is on the receive queue or was taken from it by the handler. *)
C39_SecondSessionLive ==
    hist.reconnects > 0 =>
        /\ hpc \in {"idle", "dispatch", "wait"}
        /\ Taken + Len(recv_q) = Len(rcvd)


(* ------------------------------------------------------------------------ *)
(* configure_channel_disable                                                 *)
(* ------------------------------------------------------------------------ *)

(* scoped replies of channel 1 that bring spike options (EXTRACT, REJART,
   THRAUTO) and a sample group into the mirror *)
DisablePackets ==
    { ChanPkt(CHANREPSPK, [dev.chans[1] EXCEPT !.spkopts = EXTRACT + 2 + THRAUTO]),
      ChanPkt(CHANREPSMP, [dev.chans[1] EXCEPT !.smpgroup = 2,
                                               !.smpfilter = smpfilter_for(2)]) }

RecvDisable == RecvFrom(DisablePackets)

(* nsp.py 1008-1018, 1025-1029: configure_channel_disable(chid) for a channel
   of the instrument or the channel number behind the last.  Line 1009 copies
   channel_infos[chid]: without a record of chid that is a KeyError and the call
   ends; else the packet is built and handed to _send_packet with the chaninfo
   event and the default timeout *)
ConfigureDisable ==
    /\ pc = "connected"
    /\ hist.ops < MaxOps
    /\ \E chid \in 1..(NChans + 1) :
         IF chid \in DOMAIN config.channel_infos
         THEN /\ cf' = DisableCall(chid)
              /\ sp' = SendPacketCall(disable_packet(config.channel_infos[chid]),
                                      "chaninfo", TRUE)
              /\ pc' = "disable"
              /\ ret' = ret
         ELSE /\ cf' = [phase |-> "raised", call |-> "disable", chid |-> chid,
                        old |-> NoPkt, pkt |-> NoPkt, failed |-> FALSE]
              /\ ret' = [ret EXCEPT !.configure = "KeyError"]
              /\ UNCHANGED <<sp, pc>>
    /\ hist' = [hist EXCEPT !.ops = @ + 1, !.sent0 = Len(hist.sent)]
    /\ UNCHANGED <<mirror, registries, handler, stop_event, recv_q, transportv, gc,
                   calls, rcvd, registered>>

(* the packets the client hands to configure_channel_by_packet for chid: the
   record object of the mirror itself (get_config returns the live table), or
   a copy of it with another sampling group *)
ByPacketInputs(chid) ==
    { [own |-> TRUE, pkt |-> config.channel_infos[chid]],
      [own |-> FALSE, pkt |-> [config.channel_infos[chid] EXCEPT !.smpgroup = 1]] }

(* nsp.py 1025-1029, cbsdk.py 91-92: configure_channel_by_packet(packet) sets
   the type of the packet it was given to CHANSET, in place, and hands it to
   _send_packet with the chaninfo event and the default timeout; _send_packet
   (line 1288) fills a zero header.time of the same object with last_time.
   Both writes land in the mirror when the packet is a record of the mirror *)
ClientConfigByPacket ==
    /\ pc = "connected"
    /\ hist.ops < MaxOps
    /\ \E chid \in DOMAIN config.channel_infos : \E inp \in ByPacketInputs(chid) :
         LET pkt == header_time([inp.pkt EXCEPT !.type = CHANSET])
         IN  /\ cf' = [phase |-> "wait", call |-> "by_packet", chid |-> chid,
                       old |-> config.channel_infos[chid], pkt |-> pkt,
                       failed |-> FALSE]
             /\ sp' = SendPacketCall(pkt, "chaninfo", TRUE)
             /\ config' = IF inp.own
                          THEN [config EXCEPT !.channel_infos[chid] = pkt]
                          ELSE config
    /\ pc' = "by_packet"
    /\ hist' = [hist EXCEPT !.ops = @ + 1, !.sent0 = Len(hist.sent)]
    /\ UNCHANGED <<events, registries, handler, stop_event, recv_q, transportv, gc,
                   ret, calls, rcvd, registered>>

NextDisable ==
    \/ RecvDisable \/ HandlerGet \/ HandlerCall \/ HandlerDone
    \/ ConfigureDisable \/ ClientConfigByPacket \/ DisableReturn
    \/ SendPacketClear \/ SendPacketSend \/ SendPacketWaitSet \/ SendPacketWaitTimeout
    \/ Sender

SpecDisable == InitAinp /\ [][NextDisable]_vars

(* C40: configure_channel_disable(chid) sends one CHANSET packet built from a
   copy of the mirror's record of chid, with smpgroup = 0, smpfilter = 0, the
   EXTRACT and THRAUTO bits of spkopts cleared, and the offset-correct (0x100),
   LNC (0x07), reference-electrode (0x30) and raw-stream (0x40) bits of
   ainpopts cleared, every other bit and field as in the mirror; the call does
   not modify the mirror's record. *)
C40_DisablePacket ==
    /\ []((cf.phase = "done" /\ cf.call = "disable") =>
            /\ SentOfCall = <<cf.pkt>>
            /\ cf.pkt.type = CHANSET
            /\ cf.pkt.smpgroup = 0
            /\ cf.pkt.smpfilter = 0
            /\ cf.pkt.spkopts = BitClear(cf.old.spkopts, EXTRACT + THRAUTO)
            /\ cf.pkt.ainpopts =
                 Halves(BitClear(cf.old.ainpopts,
                                 refelec_offsetcorrect + lnc_mask + refelec_mask
                                   + refelec_rawstream))
            /\ \A f \in DOMAIN cf.old \ {"type", "spkopts", "ainpopts", "smpgroup",
                                        "smpfilter"} : cf.pkt[f] = cf.old[f])
    /\ [][(pc = "connected" /\ pc' = "disable") => config' = config]_vars

(* ------------------------------------------------------------------------ *)
(* every operation of the caller context                                     *)
(* ------------------------------------------------------------------------ *)

(* the header time the instrument stamps on the record of a channel: zero on
   channel 1 and 2 on the others, the two cases line 1288 of nsp.py tells
   apart *)
DevTime(c) == IF c = 1 THEN 0 ELSE 2

(* a device object just built; the instrument is running or in standby, a
   replayer or not *)
InitCaller ==
    /\ InitDevice
    /\ send_q = <<>>
    /\ wire = <<>>
    /\ net = <<>>
    /\ io = [recv |-> "off", send |-> "off", closed |-> FALSE, lost |-> FALSE,
             pending |-> 0, done |-> FALSE, queue |-> TRUE]
    /\ \E rl \in {STANDBY, RUNNING}, np \in BOOLEAN :
         dev = [runlevel |-> rl, nplay |-> np, unsolicited |-> 0, drops |-> 0,
                proto42 |-> TRUE,
                chans |-> [c \in 1..NChans |->
                             [f \in DOMAIN DevChan(c, 0) \cup {"time"} |->
                                 IF f = "time" THEN DevTime(c) ELSE DevChan(c, 0)[f]]]]
    /\ pc = "init"
    /\ sp = NoFrame
    /\ gc = NoFrame
    /\ cf = NoFrame
    /\ ret = [connect |-> 0, returned |-> FALSE, set_runlevel |-> NoCall,
              get_config |-> "none", configure |-> "none", client |-> NoResult]

(* the traffic of connect() is over: nothing is queued, in flight or in the
   handler's hands *)
CallerQuiet == send_q = <<>> /\ net = <<>> /\ recv_q = <<>> /\ hpc # "dispatch"

(* the client makes its one call after connect() once that traffic is over *)
CallerReady == CallerQuiet /\ hist.ops = 0

(* connect() and then one call of the client, on a network that loses nothing:
   every public operation that runs on the caller context *)
NextCaller ==
    \/ Connect \/ TransportRun \/ TransportStart \/ SenderPoll
    \/ StartupAfterRunning \/ StartupAfterHardReset \/ StartupAfterGetConfig
    \/ StartupAfterReset \/ StartupNplay \/ ConnectReturn \/ ConnectRefreshed
    \/ (CallerReady /\ ClientGetConfig) \/ (CallerReady /\ ClientConfigure)
    \/ (CallerReady /\ AllChannelsCall) \/ (CallerReady /\ ConfigureDisable)
    \/ (CallerReady /\ ClientConfigByPacket) \/ (CallerReady /\ ClientSetRunlevel)
    \/ (CallerReady /\ ClientGetRunlevel) \/ (CallerReady /\ ClientSetTransport)
    \/ (CallerReady /\ ClientGetTransport) \/ (CallerReady /\ ClientSetNplay)
    \/ (CallerReady /\ ClientDisconnect)
    \/ ClientGetConfigReturn
    \/ GetConfigClear \/ GetConfigSend \/ GetConfigCheck \/ GetConfigNoRefresh
    \/ SmpgroupToggle \/ SmpgroupAfterToggle \/ SmpgroupSend \/ SmpgroupAfterSend
    \/ SmpgroupRaise \/ AutothresholdSend \/ AutothresholdReturn
    \/ CheckedSend \/ GlobalLncSend \/ SpikeSend
    \/ AllChannelsNext \/ DisableReturn
    \/ ClientSetRunlevelReturn \/ ClientSetNplayReturn \/ ClientGetRunlevelReturn
    \/ ClientSetTransportReturn \/ ClientGetTransportReturn
    \/ SendPacketClear \/ SendPacketSend \/ SendPacketWaitSet \/ SendPacketWaitTimeout
    \/ DisconnectStopIO \/ DisconnectSendQuit \/ DisconnectTestQuit
    \/ DisconnectStopIOError
    \/ DisconnectStopHandler \/ DisconnectJoinIO \/ DisconnectJoinHandler
    \/ Sender \/ Deliver \/ ConnectionLost \/ ReceiverLost \/ ThreadExit
    \/ HandlerGet \/ HandlerCall \/ HandlerDone
    \/ HandlerEmpty \/ HandlerWaitTimeout \/ HandlerExit

SpecCaller == InitCaller /\ [][NextCaller]_vars

====
